---- MODULE Spec2Model ----
(***************************************************************************)
(* Model of the monitoring subsystem of MediaBoard-Backend:                *)
(*   - services/monitoringService.js  (metric stores, health evaluator)    *)
(*   - middleware/monitoring.js       (request hook, endpoint patterns)    *)
(*   - routes/monitoring (alerts) and routes/dashboard (bucketed history)  *)
(*                                                                         *)
(* JavaScript strings are modelled as sequences of one-character strings,  *)
(* so that the regular-expression replacements of getEndpointPattern are   *)
(* computed character by character as the engine computes them.            *)
(***************************************************************************)
EXTENDS Integers, Sequences, FiniteSets, TLC

(***************************************************************************)
(* Characters and character classes                                        *)
(***************************************************************************)
DigitSeq == <<"0", "1", "2", "3", "4", "5", "6", "7", "8", "9">>

LowerSeq == <<"a", "b", "c", "d", "e", "f", "g", "h", "i", "j", "k", "l", "m",
              "n", "o", "p", "q", "r", "s", "t", "u", "v", "w", "x", "y", "z">>

UpperSeq == <<"A", "B", "C", "D", "E", "F", "G", "H", "I", "J", "K", "L", "M",
              "N", "O", "P", "Q", "R", "S", "T", "U", "V", "W", "X", "Y", "Z">>

Range(s) == {s[i] : i \in DOMAIN s}

\* \d
IsDigit(c) == c \in Range(DigitSeq)

\* [0-9a-f] under the i flag
IsHex(c) == c \in Range(DigitSeq) \cup {"a", "b", "c", "d", "e", "f"}
                                  \cup {"A", "B", "C", "D", "E", "F"}

\* [a-zA-Z0-9]
IsAlnum(c) == c \in Range(DigitSeq) \cup Range(LowerSeq) \cup Range(UpperSeq)

\* String.prototype.toLowerCase on one character
LowerChar(c) ==
    IF c \in Range(UpperSeq)
    THEN LowerSeq[CHOOSE i \in DOMAIN UpperSeq : UpperSeq[i] = c]
    ELSE c

ToLowerCase(s) == [i \in DOMAIN s |-> LowerChar(s[i])]

(***************************************************************************)
(* getEndpointPattern: three global regex replacements, then toLowerCase   *)
(***************************************************************************)
IdToken == <<"/", ":", "i", "d">>
CodeToken == <<"/", ":", "c", "o", "d", "e">>
Unknown == <<"u", "n", "k", "n", "o", "w", "n">>

\* positions of the dashes in 8-4-4-4-12, counted from the first hex digit
UuidLen == 36
UuidDashes == {9, 14, 19, 24}

\* /\/[0-9a-f]{8}-[0-9a-f]{4}-[0-9a-f]{4}-[0-9a-f]{4}-[0-9a-f]{12}/i at i
MatchUuidAt(s, i) ==
    /\ i + UuidLen <= Len(s)
    /\ s[i] = "/"
    /\ \A k \in 1..UuidLen :
          IF k \in UuidDashes THEN s[i + k] = "-" ELSE IsHex(s[i + k])

\* \d+ : length of the longest run of digits starting at position j
RECURSIVE DigitRun(_, _)
DigitRun(s, j) ==
    IF j > Len(s) \/ ~IsDigit(s[j]) THEN 0 ELSE 1 + DigitRun(s, j + 1)

\* [a-zA-Z0-9]{8,} : length of the longest alphanumeric run starting at j
RECURSIVE AlnumRun(_, _)
AlnumRun(s, j) ==
    IF j > Len(s) \/ ~IsAlnum(s[j]) THEN 0 ELSE 1 + AlnumRun(s, j + 1)

\* .replace(/\/<uuid>/gi, '/:id'), scanning left to right from position i
RECURSIVE ReplaceUuidFrom(_, _)
ReplaceUuidFrom(s, i) ==
    IF i > Len(s) THEN <<>>
    ELSE IF MatchUuidAt(s, i)
         THEN IdToken \o ReplaceUuidFrom(s, i + 1 + UuidLen)
         ELSE <<s[i]>> \o ReplaceUuidFrom(s, i + 1)

\* .replace(/\/\d+/g, '/:id'): the + is greedy
RECURSIVE ReplaceNumericFrom(_, _)
ReplaceNumericFrom(s, i) ==
    IF i > Len(s) THEN <<>>
    ELSE IF s[i] = "/" /\ DigitRun(s, i + 1) >= 1
         THEN IdToken \o ReplaceNumericFrom(s, i + 1 + DigitRun(s, i + 1))
         ELSE <<s[i]>> \o ReplaceNumericFrom(s, i + 1)

MinCodeLen == 8

\* .replace(/\/[a-zA-Z0-9]{8,}/g, '/:code'): {8,} is greedy
RECURSIVE ReplaceCodeFrom(_, _)
ReplaceCodeFrom(s, i) ==
    IF i > Len(s) THEN <<>>
    ELSE IF s[i] = "/" /\ AlnumRun(s, i + 1) >= MinCodeLen
         THEN CodeToken \o ReplaceCodeFrom(s, i + 1 + AlnumRun(s, i + 1))
         ELSE <<s[i]>> \o ReplaceCodeFrom(s, i + 1)

\* getEndpointPattern without the final toLowerCase
getEndpointPattern_noLowerCase(path) ==
    IF path = <<>> THEN Unknown
    ELSE ReplaceCodeFrom(ReplaceNumericFrom(ReplaceUuidFrom(path, 1), 1), 1)

getEndpointPattern(path) ==
    IF path = <<>> THEN Unknown
    ELSE ToLowerCase(
           ReplaceCodeFrom(
             ReplaceNumericFrom(
               ReplaceUuidFrom(path, 1), 1), 1))

(***************************************************************************)
(* Request paths given to getEndpointPattern: req.route?.path || req.path   *)
(***************************************************************************)
SegScreens == <<"s", "c", "r", "e", "e", "n", "s">>

SegMedia == <<"m", "e", "d", "i", "a">>

SegMediaCaps == <<"M", "e", "d", "i", "a">>

SegPlayer == <<"p", "l", "a", "y", "e", "r">>

SegPlaylists == <<"p", "l", "a", "y", "l", "i", "s", "t", "s">>

SegUuidA == <<"3", "f", "a", "8", "5", "f", "6", "4", "-", "5", "7", "1", "7", "-", "4", "5", "6", "2", "-", "b", "3", "f", "c", "-", "2", "c", "9", "6", "3", "f", "6", "6", "a", "f", "a", "6">>

SegUuidAUpper == <<"3", "F", "A", "8", "5", "F", "6", "4", "-", "5", "7", "1", "7", "-", "4", "5", "6", "2", "-", "B", "3", "F", "C", "-", "2", "C", "9", "6", "3", "F", "6", "6", "A", "F", "A", "6">>

SegUuidB == <<"c", "0", "f", "f", "e", "e", "0", "0", "-", "1", "2", "3", "4", "-", "4", "a", "b", "c", "-", "9", "d", "e", "f", "-", "0", "1", "2", "3", "4", "5", "6", "7", "8", "9", "a", "b">>

SegNum42 == <<"4", "2">>

SegNum7 == <<"7">>

SegCodeA == <<"A", "B", "C", "D", "1", "2", "3", "4">>

SegCodeALower == <<"a", "b", "c", "d", "1", "2", "3", "4">>

SegCodeB == <<"W", "X", "Y", "Z", "5", "6", "7", "8">>

SegCodeDigitFirst == <<"4", "F", "Z", "K", "2", "9", "Q", "X">>

SegCodeDigitFirstB == <<"4", "Q", "R", "S", "8", "1", "T", "U">>

SegMixed == <<"4", "2", "a", "b", "c">>

SegDashed == <<"m", "y", "-", "f", "i", "l", "e">>

SegEmpty == <<>>

Segments ==
    {SegScreens, SegMedia, SegMediaCaps, SegPlayer,
     SegPlaylists, SegUuidA, SegUuidAUpper, SegUuidB,
     SegNum42, SegNum7, SegCodeA, SegCodeALower,
     SegCodeB, SegCodeDigitFirst, SegCodeDigitFirstB, SegMixed,
     SegDashed, SegEmpty}

MaxSegments == 2

\* the segments that differ from seg in letter case at most
SpellingsOf == [seg \in Segments |->
                   {t \in Segments : ToLowerCase(t) = ToLowerCase(seg)}]

\* pairs <<path, other spelling of it>> of paths "/seg1/.../segn"
RECURSIVE PathPairsOfLen(_)
PathPairsOfLen(n) ==
    IF n = 0 THEN {<< <<>>, <<>> >>}
    ELSE UNION {{<< <<"/">> \o seg \o rest[1], <<"/">> \o t \o rest[2] >> :
                    t \in SpellingsOf[seg], rest \in PathPairsOfLen(n - 1)} :
                seg \in Segments}

PathPairs == UNION {PathPairsOfLen(n) : n \in 0..MaxSegments}

\* every path of up to MaxSegments segments, and the empty path
Paths == {pair[1] : pair \in PathPairs}

VARIABLES
    reqPath,      \* req.route?.path || req.path of a request
    altPath,      \* the path of another request: reqPath up to letter case
    endpoint      \* the endpoint computed for reqPath

patternVars == <<reqPath, altPath, endpoint>>

\* endpoint not computed yet (getEndpointPattern never returns '')
NoEndpoint == <<>>

InitPattern ==
    /\ \E pair \in PathPairs : reqPath = pair[1] /\ altPath = pair[2]
    /\ endpoint = NoEndpoint

\* const endpoint = getEndpointPattern(req.route?.path || req.path)
Normalize ==
    /\ endpoint = NoEndpoint
    /\ endpoint' = getEndpointPattern(reqPath)
    /\ UNCHANGED <<reqPath, altPath>>

\* the pattern is passed through getEndpointPattern once more
Renormalize ==
    /\ endpoint # NoEndpoint
    /\ endpoint' = getEndpointPattern(endpoint)
    /\ UNCHANGED <<reqPath, altPath>>

(***************************************************************************)
(* What the specification says a path is mapped to, segment by segment     *)
(***************************************************************************)
RECURSIVE SegLen(_, _)
SegLen(s, j) == IF j > Len(s) \/ s[j] = "/" THEN 0 ELSE 1 + SegLen(s, j + 1)

IsUuidSegment(seg) ==
    /\ Len(seg) = UuidLen
    /\ \A k \in 1..UuidLen :
          IF k \in UuidDashes THEN seg[k] = "-" ELSE IsHex(seg[k])

IsNumericSegment(seg) == Len(seg) >= 1 /\ \A k \in DOMAIN seg : IsDigit(seg[k])

IsLongAlnumSegment(seg) ==
    Len(seg) >= MinCodeLen /\ \A k \in DOMAIN seg : IsAlnum(seg[k])

\* path.split('/') without the empty piece before the leading '/'
RECURSIVE SegmentsFrom(_, _)
SegmentsFrom(s, i) ==
    IF i > Len(s) THEN <<>>
    ELSE IF s[i] = "/"
         THEN <<SubSeq(s, i + 1, i + SegLen(s, i + 1))>>
                  \o SegmentsFrom(s, i + 1 + SegLen(s, i + 1))
         ELSE SegmentsFrom(s, i + 1)

IdSegment == <<":", "i", "d">>
CodeSegment == <<":", "c", "o", "d", "e">>

\* the placeholder an identifier segment must be replaced with; <<>> for a
\* segment that is no identifier
Placeholder(seg) ==
    IF IsUuidSegment(seg) \/ IsNumericSegment(seg) THEN IdSegment
    ELSE IF IsLongAlnumSegment(seg) THEN CodeSegment
    ELSE <<>>

\* p and q have the same segments except where both hold an identifier of
\* the same kind
DifferOnlyInIdentifiers(p, q) ==
    LET sp == SegmentsFrom(p, 1)
        sq == SegmentsFrom(q, 1)
    IN /\ Len(sp) = Len(sq)
       /\ \A j \in DOMAIN sp :
             \/ sp[j] = sq[j]
             \/ Placeholder(sp[j]) # <<>> /\ Placeholder(sp[j]) = Placeholder(sq[j])

\* C6: every UUID or numeric segment becomes ':id', every other segment of
\* 8 or more alphanumeric characters becomes ':code', and two paths that
\* differ only in identifier segments get the same pattern (the same log key).
C6_SegmentsNormalized ==
    endpoint = getEndpointPattern(reqPath) =>
        LET segsIn == SegmentsFrom(reqPath, 1)
            segsOut == SegmentsFrom(endpoint, 1)
        IN /\ Len(segsOut) = Len(segsIn)
           /\ \A j \in DOMAIN segsIn :
                 Placeholder(segsIn[j]) # <<>> => segsOut[j] = Placeholder(segsIn[j])
           /\ \A q \in Paths :
                 DifferOnlyInIdentifiers(reqPath, q) => getEndpointPattern(q) = endpoint

\* C7: normalization is idempotent (normalizing a pattern again changes
\* nothing) and case-insensitive (a path that differs from another in letter
\* case only gets the same pattern).
C7_IdempotentCaseInsensitive ==
    endpoint # NoEndpoint =>
        /\ getEndpointPattern(endpoint) = endpoint
        /\ getEndpointPattern(altPath) = endpoint

\* /Media/ABCD1234 has been normalized to /media/:code; /media/abcd1234 is
\* the other spelling
C7_Witness ==
    /\ reqPath = <<"/">> \o SegMediaCaps \o <<"/">> \o SegCodeA
    /\ altPath = <<"/">> \o SegMedia \o <<"/">> \o SegCodeALower
    /\ endpoint = <<"/">> \o SegMedia \o CodeToken

(***************************************************************************)
(* Metric stores: MonitoringService.metrics.requests / .errors             *)
(***************************************************************************)
VARIABLES
    now,          \* Date.now(), in ms since the service was constructed
    ticks,        \* how often the clock has advanced
    requests,     \* metrics.requests: key -> array of request records
    errors,       \* metrics.errors: error name -> array of error records
    errorKeys,    \* the keys of metrics.errors in insertion order
    recorded,     \* history: key -> number of recordRequest calls so far
    errRecorded,  \* history: error name -> number of recordError calls so far
    hook,         \* outcome of the last res.send / res.json hook
    reqMetrics,   \* result of the last getRequestMetrics call
    reqSince,     \* its argument, as <<since>>; <<>> before the first call
    errMetrics,   \* result of the last getErrorMetrics call
    errSince,     \* its argument, as <<since>>; <<>> before the first call
    pruneHorizon  \* <<oneHourAgo>> of the cleanOldMetrics pass just made, else <<>>

storeVars ==
    <<now, ticks, requests, errors, errorKeys, recorded, errRecorded, hook,
      reqMetrics, reqSince, errMetrics, errSince, pruneHorizon>>

OneHourMs == 60 * 60 * 1000

\* requests.length > 1000
MaxRequestsPerKey == 1000
\* errors.length > 500
MaxErrorsPerType == 500

\* Map.get(key) of a Map modelled as a function; [] for a key just created
Log(map, key) == IF key \in DOMAIN map THEN map[key] ELSE <<>>

Count(cnt, key) == IF key \in DOMAIN cnt THEN cnt[key] ELSE 0

\* map.set(key, value)
MapSet(map, key, value) ==
    [k \in DOMAIN map \cup {key} |-> IF k = key THEN value ELSE map[k]]

\* arr.splice(0, arr.length - cap) without the length test around it
Truncate_dropNewest(arr, cap) ==
    IF Len(arr) > cap THEN SubSeq(arr, 1, cap) ELSE arr

\* if (arr.length > cap) arr.splice(0, arr.length - cap)
Truncate(arr, cap) ==
    IF Len(arr) > cap THEN SubSeq(arr, Len(arr) - cap + 1, Len(arr)) ELSE arr

\* `${method}:${endpoint}`
RequestKey(method, endp) == method \o <<":">> \o endp

\* the flag with <= 400 as its upper test
IsSuccess_inclusive(statusCode) == statusCode >= 200 /\ statusCode <= 400

\* statusCode >= 200 && statusCode < 400
IsSuccess(statusCode) == statusCode >= 200 /\ statusCode < 400

\* The state after recordRequest(endpoint, method, statusCode, responseTime).
\* userId is always null here (no authenticated user) and is left out; n is
\* a history field: the number of this insertion under its key.
recordRequest(endp, method, statusCode, responseTime) ==
    LET key == RequestKey(method, endp)
        rec == [timestamp |-> now,
                statusCode |-> statusCode,
                responseTime |-> responseTime,
                success |-> IsSuccess(statusCode),
                n |-> Count(recorded, key) + 1]
    IN /\ requests' = MapSet(requests, key,
                             Truncate(Append(Log(requests, key), rec), MaxRequestsPerKey))
       /\ recorded' = MapSet(recorded, key, Count(recorded, key) + 1)

getErrorSeverity(name) ==
    CASE name = "ValidationError" -> "low"
      [] name = "AuthenticationError" -> "medium"
      [] name = "DatabaseError" -> "high"
      [] name = "SystemError" -> "critical"
      [] OTHER -> "medium"

\* The state after recordError(error, context); stack and context are not
\* read by any query and are left out.
recordError(name, message) ==
    LET errorKey == IF name = "" THEN "UnknownError" ELSE name
        rec == [timestamp |-> now,
                message |-> message,
                severity |-> getErrorSeverity(name),
                n |-> Count(errRecorded, errorKey) + 1]
    IN /\ errors' = MapSet(errors, errorKey,
                           Truncate(Append(Log(errors, errorKey), rec), MaxErrorsPerType))
       /\ errorKeys' = IF errorKey \in DOMAIN errors THEN errorKeys
                       ELSE Append(errorKeys, errorKey)
       /\ errRecorded' = MapSet(errRecorded, errorKey, Count(errRecorded, errorKey) + 1)

\* a quotient a / b kept as the pair <<a, b>>; <<>> is a field never assigned
Undefined == <<>>
Quotient(a, b) == <<a, b>>

EmptyMap == [k \in {} |-> <<>>]

\* reqMetrics and reqSince hold the answer of the query made in this step;
\* a step that makes no query leaves no answer behind
NoMetrics == [total |-> 0, successful |-> 0, failed |-> 0, averageResponseTime |-> 0,
              errorRate |-> Undefined, endpoints |-> EmptyMap]

\* the object getErrorMetrics starts from
Severities == {"low", "medium", "high", "critical"}

NoErrMetrics == [total |-> 0, byType |-> EmptyMap,
                 bySeverity |-> [s \in Severities |-> 0], recent |-> <<>>]

NoQuery ==
    /\ reqMetrics' = NoMetrics
    /\ reqSince' = <<>>
    /\ errMetrics' = NoErrMetrics
    /\ errSince' = <<>>

NoPrune == pruneHorizon' = <<>>

(***************************************************************************)
(* requestMonitoring: the hook installed on res.send and res.json          *)
(***************************************************************************)
\* the paths of the requests served, and getEndpointPattern of each
PathMedia42 == <<"/">> \o SegMedia \o <<"/">> \o SegNum42
PathMedia7 == <<"/">> \o SegMedia \o <<"/">> \o SegNum7
PathPlayerCode == <<"/">> \o SegPlayer \o <<"/">> \o SegCodeA

StorePaths == {PathMedia42, PathMedia7, PathPlayerCode}

EndpointOf == [p \in StorePaths |-> getEndpointPattern(p)]

\* response bodies handed to res.send / res.json
BodyNull == [type |-> "null", error |-> "", code |-> ""]
BodyText == [type |-> "string", error |-> "", code |-> ""]
BodyPlain == [type |-> "object", error |-> "", code |-> ""]
BodyError == [type |-> "object", error |-> "Not found", code |-> ""]
BodyErrorCode == [type |-> "object", error |-> "Validation failed", code |-> "VALIDATION_ERROR"]

\* typeof data === 'object' holds of null as well
TypeofObject(data) == data.type \in {"object", "null"}

\* recordMetrics(data), followed by originalSend/originalJson.  Reading
\* data.error of null throws a TypeError out of the hook, after the request
\* has been recorded.
RecordMetrics(path, method, statusCode, responseTime, data) ==
    /\ recordRequest(EndpointOf[path], method, statusCode, responseTime)
    /\ IF statusCode >= 400
       THEN IF TypeofObject(data) /\ data.type = "null"
            THEN /\ hook' = "threw"
                 /\ UNCHANGED <<errors, errorKeys, errRecorded>>
            ELSE /\ hook' = "sent"
                 /\ IF TypeofObject(data) /\ data.error # ""
                    THEN recordError(IF data.code # "" THEN data.code ELSE "APIError",
                                     data.error)
                    ELSE recordError("HTTPError", "HTTP Error")
       ELSE /\ hook' = "sent"
            /\ UNCHANGED <<errors, errorKeys, errRecorded>>
    /\ NoQuery
    /\ NoPrune
    /\ UNCHANGED <<now, ticks>>

\* a direct monitoringService.recordError(error, context) by errorMonitoring,
\* a route's catch block or the test-error route
RecordErrorCall(name) ==
    /\ recordError(name, "failure")
    /\ NoQuery
    /\ NoPrune
    /\ UNCHANGED <<now, ticks, requests, recorded, hook>>

\* time passes
Tick(d) ==
    /\ now' = now + d
    /\ ticks' = ticks + 1
    /\ NoQuery
    /\ NoPrune
    /\ UNCHANGED <<requests, errors, errorKeys, recorded, errRecorded, hook>>

\* requests.filter(r => r.timestamp > since)
RecentRecords_strict(arr, since) ==
    SelectSeq(arr, LAMBDA r : r.timestamp > since)

\* requests.filter(r => r.timestamp >= since)
RecentRecords(arr, since) ==
    SelectSeq(arr, LAMBDA r : r.timestamp >= since)

\* cleanOldMetrics, run by the 5-minute interval
CleanOldMetrics ==
    LET oneHourAgo == now - OneHourMs
    IN /\ requests' = [k \in DOMAIN requests |-> RecentRecords(requests[k], oneHourAgo)]
       /\ errors' = [k \in DOMAIN errors |-> RecentRecords(errors[k], oneHourAgo)]
       /\ pruneHorizon' = <<oneHourAgo>>
       /\ NoQuery
       /\ UNCHANGED <<now, ticks, errorKeys, recorded, errRecorded, hook>>

(***************************************************************************)
(* Health evaluator: MonitoringService.performHealthCheck                  *)
(***************************************************************************)
VARIABLES
    hcPc,         \* "idle", "checking" (inside the for-loop), "done" (result
                  \* returned), "failed" (performHealthCheck rejected and the
                  \* middleware substituted its own result), "responded"
                  \* (alerts response sent) or "answered" (health response sent)
    stalled,      \* the checks whose backend call never settles
    hcIndex,      \* position in this.healthChecks of the check to run next
    hcOverall,    \* results.overall
    hcComponents, \* results.components: name -> status
    hcOutcomes,   \* history: name -> what awaiting the check function gave
    hcAlerts,     \* results.alerts
    alertQuery,   \* req.query.severity of the alerts request ("" when absent)
    alertPerf,    \* what generatePerformanceAlerts returned to it
    alertItems    \* alerts.items of its response

healthVars ==
    <<hcPc, stalled, hcIndex, hcOverall, hcComponents, hcOutcomes, hcAlerts,
      alertQuery, alertPerf, alertItems>>

\* initializeHealthChecks: a Map iterates in insertion order
HealthCheckNames == <<"database", "storage", "memory", "disk", "cpu", "network">>

\* what `await checkFunction()` can give: a result with one of the four
\* statuses, or a rejection
CheckOutcomes == {"healthy", "warning", "critical", "error", "throw"}

NoAlertsRequest ==
    /\ alertQuery' = ""
    /\ alertPerf' = <<>>
    /\ alertItems' = <<>>

\* const results = { overall: 'healthy', components: {}, alerts: [] }
StartHealthCheck ==
    /\ hcPc \in {"idle", "done", "failed", "responded", "answered"}
    /\ hcPc' = "checking"
    /\ hcIndex' = 1
    /\ hcOverall' = "healthy"
    /\ hcComponents' = EmptyMap
    /\ hcOutcomes' = EmptyMap
    /\ hcAlerts' = <<>>
    /\ NoAlertsRequest
    /\ UNCHANGED stalled

\* a loop that ends at the first check that throws
NextIndex_abortOnThrow(index, outcome) ==
    IF outcome = "throw" THEN Len(HealthCheckNames) + 1 ELSE index + 1

\* the try/catch is inside the loop body: the loop goes on to the next
\* check whatever the outcome of this one
NextIndex(index, outcome) == index + 1

\* the else-if of the loop body without `&& results.overall === 'healthy'`
RaisesWarning_anyOverall(status, overall) == status = "warning"

\* result.status === 'warning' && results.overall === 'healthy'
RaisesWarning(status, overall) == status = "warning" /\ overall = "healthy"

\* one iteration of `for (const [name, checkFunction] of this.healthChecks)`
RunCheck(outcome) ==
    LET name == HealthCheckNames[hcIndex]
    IN /\ hcPc = "checking"
       /\ hcIndex <= Len(HealthCheckNames)
       /\ name \notin stalled
       /\ hcOutcomes' = MapSet(hcOutcomes, name, outcome)
       /\ IF outcome = "throw"
          THEN \* catch (error)
               /\ hcComponents' = MapSet(hcComponents, name, "error")
               /\ hcAlerts' = Append(hcAlerts,
                      [component |-> name, severity |-> "critical",
                       message |-> <<"Health check failed", name>>])
               /\ hcOverall' = "critical"
          ELSE /\ hcComponents' = MapSet(hcComponents, name, outcome)
               /\ IF outcome = "critical" \/ outcome = "error"
                  THEN /\ hcAlerts' = Append(hcAlerts,
                              [component |-> name, severity |-> "critical",
                               message |-> <<"check message", name>>])
                       /\ hcOverall' = "critical"
                  ELSE IF RaisesWarning(outcome, hcOverall)
                       THEN /\ hcAlerts' = Append(hcAlerts,
                                   [component |-> name, severity |-> "warning",
                                    message |-> <<"check message", name>>])
                            /\ hcOverall' = "warning"
                       ELSE UNCHANGED <<hcAlerts, hcOverall>>
       /\ hcIndex' = NextIndex(hcIndex, outcome)
       /\ UNCHANGED <<hcPc, stalled, alertQuery, alertPerf, alertItems>>

\* the loop is over: results.metrics = await this.getCurrentMetrics();
\* return results
FinishHealthCheck ==
    /\ hcPc = "checking"
    /\ hcIndex > Len(HealthCheckNames)
    /\ hcPc' = "done"
    /\ UNCHANGED <<stalled, hcIndex, hcOverall, hcComponents, hcOutcomes, hcAlerts,
                   alertQuery, alertPerf, alertItems>>

\* healthCheckMiddleware when `await performHealthCheck()` rejects (the
\* awaited getCurrentMetrics is outside the loop's try/catch): the error is
\* recorded and req.healthCheck = { overall: 'error', error: message }
FailHealthCheck(name) ==
    /\ hcPc = "checking"
    /\ hcIndex > Len(HealthCheckNames)
    /\ hcPc' = "failed"
    /\ hcOverall' = "error"
    /\ hcComponents' = EmptyMap
    /\ hcAlerts' = <<>>
    /\ recordError(name, "failure")
    /\ NoQuery
    /\ NoPrune
    /\ UNCHANGED <<stalled, hcIndex, hcOutcomes, alertQuery, alertPerf, alertItems,
                   now, ticks, requests, recorded, hook>>

InitHealth ==
    /\ hcPc = "idle"
    /\ stalled = {}
    /\ hcIndex = 0
    /\ hcOverall = "healthy"
    /\ hcComponents = EmptyMap
    /\ hcOutcomes = EmptyMap
    /\ hcAlerts = <<>>
    /\ alertQuery = ""
    /\ alertPerf = <<>>
    /\ alertItems = <<>>

(***************************************************************************)
(* GET /monitoring/alerts                                                  *)
(***************************************************************************)
\* generatePerformanceAlerts: memoryUsage is heapUsed / heapTotal * 100,
\* uptime is in ms
generatePerformanceAlerts(memoryUsage, uptime) ==
    (IF memoryUsage > 90
     THEN <<[component |-> "memory", severity |-> "critical",
             message |-> <<"High memory usage">>]>>
     ELSE IF memoryUsage > 75
          THEN <<[component |-> "memory", severity |-> "warning",
                  message |-> <<"Elevated memory usage">>]>>
          ELSE <<>>)
    \o (IF uptime < 300000
        THEN <<[component |-> "system", severity |-> "info",
                message |-> <<"System recently restarted">>]>>
        ELSE <<>>)

\* const severityOrder = { critical: 3, warning: 2, info: 1 }; ... || 0
SeverityOrder(severity) ==
    CASE severity = "critical" -> 3
      [] severity = "warning" -> 2
      [] severity = "info" -> 1
      [] OTHER -> 0

\* the comparator (a, b) => (severityOrder[b.severity] || 0) - (...[a.severity] || 0)
CompareAlerts(a, b) == SeverityOrder(b.severity) - SeverityOrder(a.severity)

\* x put into the sorted array before the first element that must follow it
RECURSIVE InsertStable(_, _)
InsertStable(sorted, x) ==
    IF sorted = <<>> THEN <<x>>
    ELSE IF CompareAlerts(Head(sorted), x) > 0
         THEN <<x>> \o sorted
         ELSE <<Head(sorted)>> \o InsertStable(Tail(sorted), x)

\* x put before the first element that may follow it: ties change places
RECURSIVE InsertUnstable(_, _)
InsertUnstable(sorted, x) ==
    IF sorted = <<>> THEN <<x>>
    ELSE IF CompareAlerts(Head(sorted), x) >= 0
         THEN <<x>> \o sorted
         ELSE <<Head(sorted)>> \o InsertUnstable(Tail(sorted), x)

RECURSIVE SortInto(_, _)
SortInto(sorted, arr) ==
    IF arr = <<>> THEN sorted
    ELSE SortInto(InsertStable(sorted, Head(arr)), Tail(arr))

RECURSIVE SortIntoUnstable(_, _)
SortIntoUnstable(sorted, arr) ==
    IF arr = <<>> THEN sorted
    ELSE SortIntoUnstable(InsertUnstable(sorted, Head(arr)), Tail(arr))

\* a sort that does not keep the order of elements that compare equal
ArraySort_unstable(arr) == SortIntoUnstable(<<>>, arr)

\* alerts.sort(comparator): Array.prototype.sort is stable (ECMAScript 2019),
\* so its result is the one of a stable insertion sort
ArraySort(arr) == SortInto(<<>>, arr)

\* alerts.filter(alert => alert.severity === severity) when a severity is given
FilterAlerts(alerts, severity) ==
    IF severity = "" THEN alerts
    ELSE SelectSeq(alerts, LAMBDA al : al.severity = severity)

\* the route handler, after healthCheckMiddleware has put the result of
\* performHealthCheck into req.healthCheck
AlertsRoute(severity, memoryUsage, uptime) ==
    /\ hcPc = "done"
    /\ hcPc' = "responded"
    /\ alertQuery' = severity
    /\ alertPerf' = generatePerformanceAlerts(memoryUsage, uptime)
    /\ alertItems' = ArraySort(FilterAlerts(hcAlerts, severity)
                               \o generatePerformanceAlerts(memoryUsage, uptime))
    /\ UNCHANGED <<stalled, hcIndex, hcOverall, hcComponents, hcOutcomes, hcAlerts>>

(***************************************************************************)
(* checkMemoryHealth                                                       *)
(***************************************************************************)
VARIABLES
    heapUsed,     \* process.memoryUsage().heapUsed
    heapTotal,    \* process.memoryUsage().heapTotal
    sysTotal,     \* os.totalmem()
    sysFree,      \* os.freemem()
    memStatus     \* status of the result of checkMemoryHealth, "" before it ran

memoryVars == <<heapUsed, heapTotal, sysTotal, sysFree, memStatus>>

\* this.alertThresholds.memoryUsage * 100: 0.9 * 100 is 90 in IEEE doubles
MemoryThresholdPercent == 90
ElevatedPercent == 75

\* (used / total) * 100 > percent, decided on the integers: for byte counts
\* below 2^40 the double quotient is on the same side of the threshold
UsageAbove(used, total, percent) == used * 100 > percent * total

\* the same comparison with >= in place of >
UsageAtLeast(used, total, percent) == used * 100 >= percent * total

\* the status checkMemoryHealth would give with >= as its first comparison
MemoryStatus_inclusive(hUsed, hTotal, sTotal, sFree) ==
    IF UsageAtLeast(hUsed, hTotal, MemoryThresholdPercent) THEN "critical"
    ELSE IF UsageAbove(sTotal - sFree, sTotal, MemoryThresholdPercent) THEN "warning"
    ELSE IF UsageAbove(hUsed, hTotal, ElevatedPercent) THEN "warning"
    ELSE "healthy"

\* the if / else-if chain of checkMemoryHealth
MemoryStatus(hUsed, hTotal, sTotal, sFree) ==
    IF UsageAbove(hUsed, hTotal, MemoryThresholdPercent) THEN "critical"
    ELSE IF UsageAbove(sTotal - sFree, sTotal, MemoryThresholdPercent) THEN "warning"
    ELSE IF UsageAbove(hUsed, hTotal, ElevatedPercent) THEN "warning"
    ELSE "healthy"

checkMemoryHealth ==
    /\ memStatus' = MemoryStatus(heapUsed, heapTotal, sysTotal, sysFree)
    /\ UNCHANGED <<heapUsed, heapTotal, sysTotal, sysFree>>

\* the heap grows or shrinks, other processes take or release host memory
MemoryChanges(hUsed, sFree) ==
    /\ heapUsed' = hUsed
    /\ sysFree' = sFree
    /\ memStatus' = ""
    /\ UNCHANGED <<heapTotal, sysTotal>>

\* memory sizes in units of a thousandth of the total
MemoryTotal == 1000
HeapLevels == {0, 500, 749, 750, 751, 899, 900, 901, 1000}
SysUsedLevels == {0, 500, 899, 900, 901, 1000}

InitMemory ==
    /\ heapTotal = MemoryTotal
    /\ sysTotal = MemoryTotal
    /\ heapUsed \in HeapLevels
    /\ sysFree \in {MemoryTotal - u : u \in SysUsedLevels}
    /\ memStatus = ""

(***************************************************************************)
(* GET /dashboard/metrics: media uploads of the range and their history    *)
(***************************************************************************)
VARIABLES
    media,        \* created_at of the rows of table media, in insertion order
    mPc,          \* "idle", "captured" (now taken), "queried" (rows read), "done"
    mNow,         \* const now = new Date()
    mRange,       \* req.query.range
    mWithHistory, \* req.query.history === 'true'
    mRows,        \* mediaMetrics: created_at of the rows the query returned
    mUploads,     \* metrics.content.mediaUploads
    mHistory      \* metrics.history

bucketVars == <<media, mPc, mNow, mRange, mWithHistory, mRows, mUploads, mHistory>>

\* the switch on timeRange: hours the range reaches back
RangeHours(range) ==
    CASE range = "6h" -> 6
      [] range = "24h" -> 24
      [] range = "7d" -> 7 * 24
      [] OTHER -> 1

\* timeRange === '7d' ? 24 * 60 * 60 * 1000 : 60 * 60 * 1000
BucketSize(range) == IF range = "7d" THEN 24 * OneHourMs ELSE OneHourMs

\* timeRange === '7d' ? 7 : (timeRange === '24h' ? 24 : 6)
BucketCount(range) == IF range = "7d" THEN 7 ELSE IF range = "24h" THEN 24 ELSE 6

\* a row is inserted into media; created_at is the time of the insertion
InsertMedia ==
    /\ media' = Append(media, now)
    /\ UNCHANGED <<mPc, mNow, mRange, mWithHistory, mRows, mUploads, mHistory>>

\* the handler starts: range and history are read, now is taken
MetricsStart(range, withHistory) ==
    /\ mPc \in {"idle", "done"}
    /\ mPc' = "captured"
    /\ mNow' = now
    /\ mRange' = range
    /\ mWithHistory' = withHistory
    /\ mRows' = <<>>
    /\ mUploads' = 0
    /\ mHistory' = <<>>
    /\ UNCHANGED media

\* after the screens query has been awaited:
\* supabase.from('media').select(...).gte('created_at', timeThreshold)
MetricsQuery ==
    /\ mPc = "captured"
    /\ mPc' = "queried"
    /\ mRows' = SelectSeq(media,
                  LAMBDA created : created >= mNow - RangeHours(mRange) * OneHourMs)
    /\ UNCHANGED <<media, mNow, mRange, mWithHistory, mUploads, mHistory>>

\* mediaMetrics.filter(m => created >= bucketStart && created < bucketEnd).length
\* for the bucket of loop index i
BucketUploads(rows, nowMs, range, i) ==
    Len(SelectSeq(rows,
          LAMBDA created : /\ created >= nowMs - (i + 1) * BucketSize(range)
                           /\ created < nowMs - i * BucketSize(range)))

\* the for-loop with buckets.unshift(...): the bucket of index i ends up at
\* position bucketCount - i
History(rows, nowMs, range) ==
    [j \in 1..BucketCount(range) |->
        LET i == BucketCount(range) - j
        IN [timestamp |-> nowMs - (i + 1) * BucketSize(range),
            mediaUploads |-> BucketUploads(rows, nowMs, range, i)]]

\* the metrics object is built and sent
MetricsRespond ==
    /\ mPc = "queried"
    /\ mPc' = "done"
    /\ mUploads' = Len(mRows)
    /\ mHistory' = IF mWithHistory THEN History(mRows, mNow, mRange) ELSE <<>>
    /\ UNCHANGED <<media, mNow, mRange, mWithHistory, mRows>>

InitBuckets ==
    /\ media = <<>>
    /\ mPc = "idle"
    /\ mNow = 0
    /\ mRange = "1h"
    /\ mWithHistory = FALSE
    /\ mRows = <<>>
    /\ mUploads = 0
    /\ mHistory = <<>>

(***************************************************************************)
(* getRequestMetrics(since)                                                *)
(***************************************************************************)
RECURSIVE SumResponseTime(_)
\* arr.reduce((sum, r) => sum + r.responseTime, 0)
SumResponseTime(arr) ==
    IF arr = <<>> THEN 0 ELSE Head(arr).responseTime + SumResponseTime(Tail(arr))

\* Math.floor(num / den): truncates where Math.round rounds
MathRound_floor(num, den) == num \div den

\* Math.round(num / den) for num >= 0, den > 0: halves round up
MathRound(num, den) == (2 * num + den) \div (2 * den)

\* the entry metrics.endpoints[endpoint] built from the filtered records
EndpointMetrics(recent) ==
    LET successful == Len(SelectSeq(recent, LAMBDA r : r.success))
        failed == Len(recent) - successful
    IN [total |-> Len(recent),
        successful |-> successful,
        failed |-> failed,
        averageResponseTime |-> MathRound(SumResponseTime(recent), Len(recent)),
        errorRate |-> Quotient(failed, Len(recent))]

\* the for-loop over this.metrics.requests: acc holds metrics.total,
\* .successful, .failed, totalResponseTime and requestCount
RECURSIVE AccumulateRequests(_, _, _, _)
AccumulateRequests(map, keys, since, acc) ==
    IF keys = {} THEN acc
    ELSE LET key == CHOOSE k \in keys : TRUE
             recent == RecentRecords(map[key], since)
             successful == Len(SelectSeq(recent, LAMBDA r : r.success))
         IN AccumulateRequests(map, keys \ {key}, since,
              IF Len(recent) > 0
              THEN [total |-> acc.total + Len(recent),
                    successful |-> acc.successful + successful,
                    failed |-> acc.failed + (Len(recent) - successful),
                    totalResponseTime |-> acc.totalResponseTime + SumResponseTime(recent),
                    requestCount |-> acc.requestCount + Len(recent)]
              ELSE acc)

getRequestMetrics(map, since) ==
    LET acc == AccumulateRequests(map, DOMAIN map, since,
                 [total |-> 0, successful |-> 0, failed |-> 0,
                  totalResponseTime |-> 0, requestCount |-> 0])
        listed == {k \in DOMAIN map : Len(RecentRecords(map[k], since)) > 0}
    IN [total |-> acc.total,
        successful |-> acc.successful,
        failed |-> acc.failed,
        averageResponseTime |->
            IF acc.requestCount > 0
            THEN MathRound(acc.totalResponseTime, acc.requestCount) ELSE 0,
        errorRate |->
            IF acc.requestCount > 0 THEN Quotient(acc.failed, acc.total) ELSE Undefined,
        endpoints |-> [k \in listed |-> EndpointMetrics(RecentRecords(map[k], since))]]

\* getTimeSince(range) / getCurrentMetrics: since = Date.now() - range
QueryRequests(range) ==
    /\ reqMetrics' = getRequestMetrics(requests, now - range)
    /\ reqSince' = <<now - range>>
    /\ errMetrics' = NoErrMetrics
    /\ errSince' = <<>>
    /\ NoPrune
    /\ UNCHANGED <<now, ticks, requests, errors, errorKeys, recorded, errRecorded, hook>>

(***************************************************************************)
(* getErrorMetrics(since)                                                  *)
(***************************************************************************)
\* obj[key] = value on an object created by a literal: the key '__proto__'
\* reaches the setter of Object.prototype, which ignores a number and
\* creates no property
ObjectSet(obj, key, value) ==
    IF key = "__proto__" THEN obj ELSE MapSet(obj, key, value)

\* recentErrors.slice(-10)
PerKindRecent == 10
\* metrics.recent.slice(0, 20)
RecentLimit == 20

\* arr.slice(-k)
SliceLast(arr, k) ==
    IF Len(arr) > k THEN SubSeq(arr, Len(arr) - k + 1, Len(arr)) ELSE arr

\* arr.slice(0, k)
SliceFirst(arr, k) ==
    IF Len(arr) > k THEN SubSeq(arr, 1, k) ELSE arr

\* .map(error => ({ type, message, timestamp, severity })); n is the history
\* field of the record the item was made from
ErrorItems(errorType, arr) ==
    [i \in DOMAIN arr |->
        [type |-> errorType, message |-> arr[i].message,
         timestamp |-> arr[i].timestamp, severity |-> arr[i].severity,
         n |-> arr[i].n]]

\* x put into the sorted array before the first element the comparator
\* (a, b) => b.timestamp - a.timestamp places after it
RECURSIVE InsertNewestFirst(_, _)
InsertNewestFirst(sorted, x) ==
    IF sorted = <<>> THEN <<x>>
    ELSE IF x.timestamp - Head(sorted).timestamp > 0
         THEN <<x>> \o sorted
         ELSE <<Head(sorted)>> \o InsertNewestFirst(Tail(sorted), x)

RECURSIVE SortNewestFirstInto(_, _)
SortNewestFirstInto(sorted, arr) ==
    IF arr = <<>> THEN sorted
    ELSE SortNewestFirstInto(InsertNewestFirst(sorted, Head(arr)), Tail(arr))

\* metrics.recent.sort((a, b) => b.timestamp - a.timestamp), a stable sort
SortNewestFirst(arr) == SortNewestFirstInto(<<>>, arr)

\* the for-loop over this.metrics.errors, in the insertion order of its keys
RECURSIVE AccumulateErrors(_, _, _, _)
AccumulateErrors(map, keys, since, acc) ==
    IF keys = <<>> THEN acc
    ELSE LET errorType == Head(keys)
             recentErrors == RecentRecords(map[errorType], since)
         IN AccumulateErrors(map, Tail(keys), since,
              IF Len(recentErrors) > 0
              THEN [total |-> acc.total + Len(recentErrors),
                    byType |-> ObjectSet(acc.byType, errorType, Len(recentErrors)),
                    bySeverity |->
                        [sev \in Severities |->
                            acc.bySeverity[sev]
                            + Len(SelectSeq(recentErrors, LAMBDA e : e.severity = sev))],
                    recent |-> acc.recent
                               \o ErrorItems(errorType, SliceLast(recentErrors, PerKindRecent))]
              ELSE acc)

getErrorMetrics(map, keys, since) ==
    LET acc == AccumulateErrors(map, keys, since, NoErrMetrics)
    IN [acc EXCEPT !.recent = SliceFirst(SortNewestFirst(acc.recent), RecentLimit)]

\* getCurrentMetrics / GET /monitoring/errors: since = Date.now() - range
QueryErrors(range) ==
    /\ errMetrics' = getErrorMetrics(errors, errorKeys, now - range)
    /\ errSince' = <<now - range>>
    /\ reqMetrics' = NoMetrics
    /\ reqSince' = <<>>
    /\ NoPrune
    /\ UNCHANGED <<now, ticks, requests, errors, errorKeys, recorded, errRecorded, hook>>

(***************************************************************************)
(* The store under load: Init is the state after construction              *)
(***************************************************************************)
InitStore ==
    /\ now = 0
    /\ ticks = 0
    /\ requests = EmptyMap
    /\ errors = EmptyMap
    /\ errorKeys = <<>>
    /\ recorded = EmptyMap
    /\ errRecorded = EmptyMap
    /\ hook = "none"
    /\ reqMetrics = NoMetrics
    /\ reqSince = <<>>
    /\ errMetrics = NoErrMetrics
    /\ errSince = <<>>
    /\ pruneHorizon = <<>>

MethodGet == <<"G", "E", "T">>

StoreStatuses == {200, 400}
StoreLatencies == {100, 200, 300}
StoreBodies == {BodyText}
TickSteps == {OneHourMs}
QueryRanges == {OneHourMs}

MaxInserts == 3
MaxTicks == 2

RECURSIVE SumCounts(_, _)
SumCounts(cnt, keys) ==
    IF keys = {} THEN 0
    ELSE LET k == CHOOSE x \in keys : TRUE
         IN cnt[k] + SumCounts(cnt, keys \ {k})

\* requests recorded through the hook so far, over all keys
TotalRecorded == SumCounts(recorded, DOMAIN recorded)

(***************************************************************************)
(* POST /monitoring/test-error                                             *)
(***************************************************************************)
VARIABLES
    nodeEnv,      \* process.env.NODE_ENV
    resStatus,    \* status code of the last response of a monitoring route
    teType,       \* req.body.type of the last test-error request
    teMessage     \* req.body.message of that request

routeVars == <<nodeEnv, resStatus, teType, teMessage>>

\* server.js sets NODE_ENV to development when it is not set
InitRoutes ==
    /\ nodeEnv = "development"
    /\ resStatus = 0
    /\ teType = ""
    /\ teMessage = ""

MethodPost == <<"P", "O", "S", "T">>
PathTestError == <<"/", "t", "e", "s", "t", "-", "e", "r", "r", "o", "r">>

\* the key the hook files the requests of this route under
TestErrorKey == RequestKey(MethodPost, getEndpointPattern(PathTestError))

\* the guard that never rejects
IsProduction_never(env) == FALSE

\* process.env.NODE_ENV === 'production'
IsProduction(env) == env = "production"

ForbiddenMessage == "Test endpoints not available in production"

\* the route handler together with the hook that res.json runs: in
\* production the 403 body { error, code: 'FORBIDDEN' } is what the hook
\* records; otherwise the handler records the requested error and the hook
\* records the request with status 200
TestError(type, message, responseTime) ==
    /\ teType' = type
    /\ teMessage' = message
    /\ IF IsProduction(nodeEnv)
       THEN /\ resStatus' = 403
            /\ recordRequest(getEndpointPattern(PathTestError), MethodPost, 403, responseTime)
            /\ recordError("FORBIDDEN", ForbiddenMessage)
       ELSE /\ resStatus' = 200
            /\ recordError(type, message)
            /\ recordRequest(getEndpointPattern(PathTestError), MethodPost, 200, responseTime)
    /\ hook' = "sent"
    /\ NoQuery
    /\ NoPrune
    /\ UNCHANGED <<now, ticks, nodeEnv>>

(***************************************************************************)
(* GET /monitoring/health                                                  *)
(***************************************************************************)
\* a mapping that answers 503 for critical only
HealthStatusCode_criticalOnly(overall) == IF overall = "critical" THEN 503 ELSE 200

\* let statusCode = 200; if warning 200; else if critical or error 503
HealthStatusCode(overall) ==
    IF overall = "warning" THEN 200
    ELSE IF overall = "critical" \/ overall = "error" THEN 503
    ELSE 200

\* GET /monitoring/health, after healthCheckMiddleware:
\* res.status(statusCode).json({ success, health })
HealthRoute ==
    /\ hcPc \in {"done", "failed"}
    /\ hcPc' = "answered"
    /\ resStatus' = HealthStatusCode(hcOverall)
    /\ UNCHANGED <<stalled, hcIndex, hcOverall, hcComponents, hcOutcomes, hcAlerts,
                   alertQuery, alertPerf, alertItems, nodeEnv, teType, teMessage>>

(***************************************************************************)
(* System snapshots: collectSystemMetrics / getLatestSystemMetrics         *)
(***************************************************************************)
VARIABLES
    system,       \* metrics.system: timestamp -> snapshot
    collecting,   \* timestamps of the collectSystemMetrics runs that are awaiting
    sampled,      \* history: number of runs that have stored their snapshot
    stored,       \* history: <<key>> set by the last run that stored, else <<>>
    evicted,      \* history: <<key>> that run deleted, <<>> if it deleted none
    latest        \* <<result>> of the getLatestSystemMetrics just made, else <<>>

snapshotVars == <<system, collecting, sampled, stored, evicted, latest>>

InitSnapshots ==
    /\ system = EmptyMap
    /\ collecting = <<>>
    /\ sampled = 0
    /\ stored = <<>>
    /\ evicted = <<>>
    /\ latest = <<>>

\* this.metrics.system.size > 100
MaxSnapshots == 100
\* setInterval(() => this.collectSystemMetrics(), 30000)
SampleIntervalMs == 30000

\* the value getLatestSystemMetrics returns for an empty store
Null == [timestamp |-> -1]

Min(S) == CHOOSE x \in S : \A y \in S : x <= y
Max(S) == CHOOSE x \in S : \A y \in S : x >= y

\* an eviction that deletes the newest key
OldestKey_newest(keys) == Max(keys)

\* Math.min(...this.metrics.system.keys())
OldestKey(keys) == Min(keys)

\* map.delete(key)
MapDelete(map, key) == [k \in DOMAIN map \ {key} |-> map[k]]

\* collectSystemMetrics up to its first await: the timer fires, timestamp =
\* Date.now() is taken; the clock has advanced since the run before
StartCollect ==
    /\ \A t \in DOMAIN system : t < now
    /\ \A i \in DOMAIN collecting : collecting[i] < now
    /\ collecting' = Append(collecting, now)
    /\ latest' = <<>>
    /\ UNCHANGED <<system, sampled, stored, evicted>>

\* the awaits of run i are over: the snapshot is stored under the timestamp
\* taken at the start, and the oldest key is deleted when the size exceeds 100
CompleteCollect(i) ==
    LET timestamp == collecting[i]
        added == MapSet(system, timestamp, [timestamp |-> timestamp])
    IN /\ i \in DOMAIN collecting
       /\ collecting' = SubSeq(collecting, 1, i - 1)
                         \o SubSeq(collecting, i + 1, Len(collecting))
       /\ IF Cardinality(DOMAIN added) > MaxSnapshots
          THEN /\ system' = MapDelete(added, OldestKey(DOMAIN added))
               /\ evicted' = <<OldestKey(DOMAIN added)>>
          ELSE /\ system' = added
               /\ evicted' = <<>>
       /\ stored' = <<timestamp>>
       /\ sampled' = sampled + 1
       /\ latest' = <<>>

\* a reading of run i throws: the catch block records the error and nothing
\* is stored
CollectFails(i, name) ==
    /\ i \in DOMAIN collecting
    /\ collecting' = SubSeq(collecting, 1, i - 1)
                      \o SubSeq(collecting, i + 1, Len(collecting))
    /\ latest' = <<>>
    /\ recordError(name, "failure")
    /\ NoQuery
    /\ NoPrune
    /\ UNCHANGED <<system, sampled, stored, evicted, now, ticks, requests, recorded, hook>>

getLatestSystemMetrics ==
    /\ latest' = <<IF Cardinality(DOMAIN system) = 0 THEN Null
                   ELSE system[Max(DOMAIN system)]>>
    /\ UNCHANGED <<system, collecting, sampled, stored, evicted>>

(***************************************************************************)
(* Components beside the monitoring service: their state                   *)
(***************************************************************************)
\* the two interval timers armed by startPeriodicCollection and the process they run in
VARIABLES
    alive,          \* FALSE once an exception left a timer callback uncaught
    failedTask,     \* history: the periodic task whose last run failed, else "none"
    failContext     \* history: the context tag recorded with that failure, "" if nothing was recorded

timerVars == <<alive, failedTask, failContext>>

InitTimers ==
    /\ alive = TRUE
    /\ failedTask = "none"
    /\ failContext = ""

\* the responses handlers send through the res.json and res.send of requestMonitoring
VARIABLES
    pending,        \* <<response>> while res.json is about to call this.send, else <<>>
    responses,      \* history: responses handed to res.send or res.json
    errorResponses  \* history: those with a status code of 400 or more

responseVars == <<pending, responses, errorResponses>>

InitResponses ==
    /\ pending = <<>>
    /\ responses = 0
    /\ errorResponses = 0

\* the rate limiter: one store shared by every limiter, and the clear-cache endpoint's switch
VARIABLES
    clock,          \* Date.now() as the limiter and the clear-cache timers see it
    rateLimitStore, \* key -> [count, resetTime]
    disableFlag,    \* process.env.DISABLE_RATE_LIMITING === 'true'
    reenableTimers, \* due times of the pending setTimeout callbacks of clear-cache
    lastClear,      \* history: <<time>> of the last clear-cache call, else <<>>
    passed,         \* history: <<limiter, key>> -> requests passed on in the key's current window
    lastRequest,    \* history: <<the last counted request>>, else <<>>
    lastCleanup,    \* history: <<[at, removed]>> of the last cleanup run, else <<>>
    limiterCalls    \* history: requests, clear-cache calls and clock steps so far

limiterVars == <<clock, rateLimitStore, disableFlag, reenableTimers, lastClear, passed, lastRequest, lastCleanup, limiterCalls>>

InitLimiter ==
    /\ clock = 0
    /\ rateLimitStore = <<>>
    /\ disableFlag = FALSE
    /\ reenableTimers = {}
    /\ lastClear = <<>>
    /\ passed = <<>>
    /\ lastRequest = <<>>
    /\ lastCleanup = <<>>
    /\ limiterCalls = 0

\* the token blacklist of the auth service
VARIABLES
    tokenBlacklist, \* new Set()
    authHour,       \* hours since the tokens of the model were issued
    invalidated,    \* history: every token handed to invalidateToken
    verified        \* <<[token, result]>> of the verifyToken just made, else <<>>

authVars == <<tokenBlacklist, authHour, invalidated, verified>>

InitAuth ==
    /\ tokenBlacklist = {}
    /\ authHour = 0
    /\ invalidated = {}
    /\ verified = <<>>

\* the screen_assignments table and the createAssignment / bulkAssign calls in flight
VARIABLES
    assignmentRows, \* screen_id -> playlist_id of each row with that screen_id, in insertion order
    uniqueScreenId, \* whether the table rejects a second row of one screen_id (the schema is not part of the sources)
    calls,          \* caller -> position, remaining assignments, answer of the existence check
    lastWrite,      \* history: <<[screen, hadRow, action]>> of the last update or insert, else <<>>
    assignCalls     \* history: createAssignment and bulkAssign calls started

assignVars == <<assignmentRows, uniqueScreenId, calls, lastWrite, assignCalls>>

InitAssignments ==
    /\ assignmentRows = [screen \in {"screen-1", "screen-2"} |-> <<>>]
    /\ uniqueScreenId = FALSE
    /\ calls = [caller \in {1, 2} |-> [pc |-> "idle", todo |-> <<>>, existing |-> FALSE]]
    /\ lastWrite = <<>>
    /\ assignCalls = 0

\* the screens table and the updateScreenStatuses pass in flight
VARIABLES
    screens,        \* id -> status and last_heartbeat (<<>> when null, else <<time>>)
    screenNow,      \* new Date() as the screen service sees it
    statusPass,     \* position of updateScreenStatuses and the ids getOfflineScreens returned
    lastPass        \* history: <<[updated, changed, fresh]>> of the pass just finished, else <<>>

screenVars == <<screens, screenNow, statusPass, lastPass>>

InitScreens ==
    /\ screens = [id \in {"screen-1", "screen-2"} |-> [status |-> "offline", last_heartbeat |-> <<>>]]
    /\ screenNow = 0
    /\ statusPass = [pc |-> "idle", ids |-> {}]
    /\ lastPass = <<>>

\* GET /dashboard/health: the healthCheck object of the request in flight
VARIABLES
    dashPc,         \* the next step of the handler; "responded" once it has answered
    dashOverall,    \* healthCheck.overall
    dashComponents, \* healthCheck.components as [name, status], in insertion order
    dashAlerts,     \* healthCheck.alerts as [type, component]
    dashScreensTotal, \* <<healthCheck.metrics.screens.total>>, <<>> while undefined
    compared        \* history: <<[dashboard, monitoring]>> verdicts on the components of the response

dashVars == <<dashPc, dashOverall, dashComponents, dashAlerts, dashScreensTotal, compared>>

InitDashboard ==
    /\ dashPc = "idle"
    /\ dashOverall = "healthy"
    /\ dashComponents = <<>>
    /\ dashAlerts = <<>>
    /\ dashScreensTotal = <<>>
    /\ compared = <<>>

\* the other components, which a step of this one leaves alone
besideTimers == <<responseVars, limiterVars, authVars, assignVars, screenVars, dashVars>>

\* the other components, which a step of this one leaves alone
besideResponses == <<timerVars, limiterVars, authVars, assignVars, screenVars, dashVars>>

\* the other components, which a step of this one leaves alone
besideLimiter == <<timerVars, responseVars, authVars, assignVars, screenVars, dashVars>>

\* the other components, which a step of this one leaves alone
besideAuth == <<timerVars, responseVars, limiterVars, assignVars, screenVars, dashVars>>

\* the other components, which a step of this one leaves alone
besideAssignments == <<timerVars, responseVars, limiterVars, authVars, screenVars, dashVars>>

\* the other components, which a step of this one leaves alone
besideScreens == <<timerVars, responseVars, limiterVars, authVars, assignVars, dashVars>>

\* the other components, which a step of this one leaves alone
besideDashboard == <<timerVars, responseVars, limiterVars, authVars, assignVars, screenVars>>

\* every component beside the monitoring service
platformVars == <<timerVars, responseVars, limiterVars, authVars, assignVars, screenVars, dashVars>>

InitPlatform ==
    /\ InitTimers
    /\ InitResponses
    /\ InitLimiter
    /\ InitAuth
    /\ InitAssignments
    /\ InitScreens
    /\ InitDashboard

vars == <<patternVars, storeVars, healthVars, memoryVars, bucketVars, routeVars,
          snapshotVars, platformVars>>

InitIdlePattern == reqPath = <<>> /\ altPath = <<>> /\ endpoint = NoEndpoint

InitIdleMemory ==
    /\ heapTotal = MemoryTotal
    /\ sysTotal = MemoryTotal
    /\ heapUsed = 0
    /\ sysFree = MemoryTotal
    /\ memStatus = ""

(***************************************************************************)
(* Specifications                                                          *)
(***************************************************************************)
\* getEndpointPattern on the paths of the pool
InitPatternSpec == InitPattern /\ InitStore /\ InitHealth /\ InitIdleMemory /\ InitBuckets /\ InitPlatform /\ InitRoutes
    /\ InitSnapshots

NextPattern ==
    \/ Normalize /\ UNCHANGED <<storeVars, healthVars, memoryVars, bucketVars, routeVars, snapshotVars, platformVars>>
    \/ Renormalize /\ UNCHANGED <<storeVars, healthVars, memoryVars, bucketVars, routeVars, snapshotVars, platformVars>>

SpecPattern == InitPatternSpec /\ [][NextPattern]_vars

\* the metric stores, from construction
Init == InitStore /\ InitIdlePattern /\ InitHealth /\ InitIdleMemory /\ InitBuckets /\ InitPlatform /\ InitRoutes
    /\ InitSnapshots

Next ==
    \/ \E path \in StorePaths, statusCode \in StoreStatuses,
          responseTime \in StoreLatencies, data \in StoreBodies :
          /\ TotalRecorded < MaxInserts
          /\ RecordMetrics(path, MethodGet, statusCode, responseTime, data)
          /\ UNCHANGED <<patternVars, healthVars, memoryVars, bucketVars, routeVars, snapshotVars, platformVars>>
    \/ \E d \in TickSteps :
          /\ ticks < MaxTicks
          /\ Tick(d)
          /\ UNCHANGED <<patternVars, healthVars, memoryVars, bucketVars, routeVars, snapshotVars, platformVars>>
    \/ CleanOldMetrics /\ UNCHANGED <<patternVars, healthVars, memoryVars, bucketVars, routeVars, snapshotVars, platformVars>>
    \/ \E range \in QueryRanges :
          /\ QueryRequests(range)
          /\ UNCHANGED <<patternVars, healthVars, memoryVars, bucketVars, routeVars, snapshotVars, platformVars>>

Spec == Init /\ [][Next]_vars

\* performHealthCheck with every outcome of every check
InitHealthSpec == InitHealth /\ InitStore /\ InitIdlePattern /\ InitIdleMemory /\ InitBuckets /\ InitPlatform /\ InitRoutes
    /\ InitSnapshots

NextHealth ==
    \/ StartHealthCheck /\ UNCHANGED <<patternVars, storeVars, memoryVars, bucketVars, routeVars, snapshotVars, platformVars>>
    \/ \E outcome \in CheckOutcomes :
          /\ RunCheck(outcome)
          /\ UNCHANGED <<patternVars, storeVars, memoryVars, bucketVars, routeVars, snapshotVars, platformVars>>
    \/ FinishHealthCheck /\ UNCHANGED <<patternVars, storeVars, memoryVars, bucketVars, routeVars, snapshotVars, platformVars>>

SpecHealth == InitHealthSpec /\ [][NextHealth]_vars

\* the alerts route behind the health-check middleware
AlertOutcomes == {"healthy", "warning", "critical"}
AlertSeverities == {"", "critical", "warning"}
MemoryUsages == {50, 80, 95}
Uptimes == {1000, 600000}

NextAlerts ==
    \/ StartHealthCheck /\ UNCHANGED <<patternVars, storeVars, memoryVars, bucketVars, routeVars, snapshotVars, platformVars>>
    \/ \E outcome \in AlertOutcomes :
          /\ RunCheck(outcome)
          /\ UNCHANGED <<patternVars, storeVars, memoryVars, bucketVars, routeVars, snapshotVars, platformVars>>
    \/ FinishHealthCheck /\ UNCHANGED <<patternVars, storeVars, memoryVars, bucketVars, routeVars, snapshotVars, platformVars>>
    \/ \E severity \in AlertSeverities, memoryUsage \in MemoryUsages, uptime \in Uptimes :
          /\ AlertsRoute(severity, memoryUsage, uptime)
          /\ UNCHANGED <<patternVars, storeVars, memoryVars, bucketVars, routeVars, snapshotVars, platformVars>>

SpecAlerts == InitHealthSpec /\ [][NextAlerts]_vars

\* checkMemoryHealth at every level of heap and host memory
InitMemorySpec == InitMemory /\ InitStore /\ InitIdlePattern /\ InitHealth /\ InitBuckets /\ InitPlatform /\ InitRoutes
    /\ InitSnapshots

NextMemory ==
    \/ checkMemoryHealth /\ UNCHANGED <<patternVars, storeVars, healthVars, bucketVars, routeVars, snapshotVars, platformVars>>
    \/ \E hUsed \in HeapLevels, sUsed \in SysUsedLevels :
          /\ memStatus # ""
          /\ MemoryChanges(hUsed, MemoryTotal - sUsed)
          /\ UNCHANGED <<patternVars, storeVars, healthVars, bucketVars, routeVars, snapshotVars, platformVars>>

SpecMemory == InitMemorySpec /\ [][NextMemory]_vars

\* the dashboard metrics route while media rows are inserted
BucketRanges == {"1h", "24h"}
BucketTickSteps == {OneHourMs, 23 * OneHourMs}
MaxMedia == 2
MaxBucketTicks == 3

InitBucketSpec == InitBuckets /\ InitPlatform /\ InitStore /\ InitIdlePattern /\ InitHealth /\ InitIdleMemory /\ InitRoutes
    /\ InitSnapshots

NextBuckets ==
    \/ /\ Len(media) < MaxMedia
       /\ InsertMedia
       /\ UNCHANGED <<patternVars, storeVars, healthVars, memoryVars, routeVars, snapshotVars, platformVars>>
    \/ \E d \in BucketTickSteps :
          /\ ticks < MaxBucketTicks
          /\ Tick(d)
          /\ UNCHANGED <<patternVars, healthVars, memoryVars, bucketVars, routeVars, snapshotVars, platformVars>>
    \/ \E range \in BucketRanges, withHistory \in BOOLEAN :
          /\ MetricsStart(range, withHistory)
          /\ UNCHANGED <<patternVars, storeVars, healthVars, memoryVars, routeVars, snapshotVars, platformVars>>
    \/ MetricsQuery /\ UNCHANGED <<patternVars, storeVars, healthVars, memoryVars, routeVars, snapshotVars, platformVars>>
    \/ MetricsRespond /\ UNCHANGED <<patternVars, storeVars, healthVars, memoryVars, routeVars, snapshotVars, platformVars>>

SpecBuckets == InitBucketSpec /\ [][NextBuckets]_vars

(***************************************************************************)
(* The store near its caps: the state after MaxRequestsPerKey - 2 requests *)
(* to one endpoint in the first millisecond, the last MaxErrorsPerType - 2 *)
(* of them answered with status 400 and a text body                        *)
(***************************************************************************)
CapKey == RequestKey(MethodGet, EndpointOf[PathMedia42])

PrefilledRequests ==
    [i \in 1..(MaxRequestsPerKey - 2) |->
        [timestamp |-> 0,
         statusCode |-> IF i <= MaxRequestsPerKey - MaxErrorsPerType THEN 200 ELSE 400,
         responseTime |-> 100,
         success |-> i <= MaxRequestsPerKey - MaxErrorsPerType,
         n |-> i]]

PrefilledErrors ==
    [i \in 1..(MaxErrorsPerType - 2) |->
        [timestamp |-> 0, message |-> "HTTP Error", severity |-> "medium", n |-> i]]

InitCap ==
    /\ now = 0
    /\ ticks = 0
    /\ requests = MapSet(EmptyMap, CapKey, PrefilledRequests)
    /\ errors = MapSet(EmptyMap, "HTTPError", PrefilledErrors)
    /\ errorKeys = <<"HTTPError">>
    /\ recorded = MapSet(EmptyMap, CapKey, MaxRequestsPerKey - 2)
    /\ errRecorded = MapSet(EmptyMap, "HTTPError", MaxErrorsPerType - 2)
    /\ hook = "sent"
    /\ reqMetrics = NoMetrics
    /\ reqSince = <<>>
    /\ errMetrics = NoErrMetrics
    /\ errSince = <<>>
    /\ pruneHorizon = <<>>
    /\ InitIdlePattern
    /\ InitHealth
    /\ InitIdleMemory
    /\ InitBuckets /\ InitPlatform
    /\ InitRoutes
    /\ InitSnapshots

CapPaths == {PathMedia42}
CapBodies == {BodyText, BodyErrorCode}
DirectErrorNames == {"DatabaseError"}

MaxCapInserts == 3

\* errors recorded so far, over all kinds
TotalErrRecorded == SumCounts(errRecorded, DOMAIN errRecorded)

NextCap ==
    \/ \E path \in CapPaths, statusCode \in StoreStatuses, data \in CapBodies :
          /\ TotalRecorded < MaxRequestsPerKey - 2 + MaxCapInserts
          /\ RecordMetrics(path, MethodGet, statusCode, 100, data)
          /\ UNCHANGED <<patternVars, healthVars, memoryVars, bucketVars, routeVars, snapshotVars, platformVars>>
    \/ \E name \in DirectErrorNames :
          /\ TotalErrRecorded < MaxErrorsPerType - 2 + MaxCapInserts
          /\ RecordErrorCall(name)
          /\ UNCHANGED <<patternVars, healthVars, memoryVars, bucketVars, routeVars, snapshotVars, platformVars>>
    \/ \E d \in TickSteps : ticks < MaxTicks /\ Tick(d) /\ UNCHANGED <<patternVars, healthVars, memoryVars, bucketVars, routeVars, snapshotVars, platformVars>>
    \/ CleanOldMetrics /\ UNCHANGED <<patternVars, healthVars, memoryVars, bucketVars, routeVars, snapshotVars, platformVars>>
    \/ \E range \in QueryRanges :
          /\ QueryErrors(range)
          /\ UNCHANGED <<patternVars, healthVars, memoryVars, bucketVars, routeVars, snapshotVars, platformVars>>

SpecCap == InitCap /\ [][NextCap]_vars

\* a log holds the most recently inserted records, oldest first: the history
\* numbers run up to the number of insertions without a gap
MostRecent(log, inserted) ==
    \A i \in DOMAIN log : log[i].n = inserted - Len(log) + i

\* C1 (as stated): a request log never holds more than 1000 records, and once
\* more than 1000 have been recorded under a key it holds exactly the 1000
\* most recently inserted ones, in insertion order.
C1_AlwaysLast1000 ==
    \A k \in DOMAIN requests :
        /\ Len(requests[k]) <= MaxRequestsPerKey
        /\ recorded[k] > MaxRequestsPerKey =>
              /\ Len(requests[k]) = MaxRequestsPerKey
              /\ MostRecent(requests[k], recorded[k])

\* C1 (amended): a request log never holds more than 1000 records and always
\* holds the most recently inserted records of its key in insertion order;
\* every recordRequest leaves min(length + 1, 1000) records, so that after an
\* eviction exactly the 1000 most recent ones are retained.
C1_BoundedMostRecent ==
    /\ [](\A k \in DOMAIN requests :
             /\ Len(requests[k]) <= MaxRequestsPerKey
             /\ MostRecent(requests[k], recorded[k]))
    /\ [][\A k \in DOMAIN recorded' :
             Count(recorded, k) # recorded'[k] =>
                 Len(requests'[k]) =
                     IF Len(Log(requests, k)) < MaxRequestsPerKey
                     THEN Len(Log(requests, k)) + 1 ELSE MaxRequestsPerKey]_vars

\* an eviction has happened: more than 1000 requests were recorded under one
\* key and its log is full
C1_Witness ==
    \E k \in DOMAIN requests :
        recorded[k] > MaxRequestsPerKey /\ Len(requests[k]) = MaxRequestsPerKey

\* C2: an error log never holds more than 500 records; eviction removes the
\* oldest first, so a log always holds the most recently inserted records of
\* its kind in insertion order, and a recordError on a full log leaves exactly
\* the 500 most recent ones.
C2_ErrorsBoundedOldestFirst ==
    /\ [](\A k \in DOMAIN errors :
             /\ Len(errors[k]) <= MaxErrorsPerType
             /\ MostRecent(errors[k], errRecorded[k]))
    /\ [][\A k \in DOMAIN errRecorded' :
             Count(errRecorded, k) # errRecorded'[k] =>
                 Len(errors'[k]) =
                     IF Len(Log(errors, k)) < MaxErrorsPerType
                     THEN Len(Log(errors, k)) + 1 ELSE MaxErrorsPerType]_vars

\* more than 500 errors of one kind were recorded and its log is full
C2_Witness ==
    \E k \in DOMAIN errors :
        errRecorded[k] > MaxErrorsPerType /\ Len(errors[k]) = MaxErrorsPerType

(***************************************************************************)
(* Claims about getRequestMetrics                                          *)
(***************************************************************************)
\* the places <<key, index>> of the stored records with timestamp >= since
Matching(since) ==
    {x \in UNION {{<<k, i>> : i \in DOMAIN requests[k]} : k \in DOMAIN requests} :
        requests[x[1]][x[2]].timestamp >= since}

\* C4: getRequestMetrics(since) counts exactly the records with timestamp >=
\* since over all keys: total is their number, successful the number of those
\* flagged success, successful + failed = total, the average is their mean
\* latency rounded to the nearest integer, errorRate = failed / total, and the
\* per-endpoint totals sum to total (mean and rate when total > 0).
C4_RequestMetricsExact ==
    reqSince # <<>> =>
        LET S == Matching(reqSince[1])
            total == Cardinality(S)
            sumLatency == SumCounts([x \in S |-> requests[x[1]][x[2]].responseTime], S)
            m == reqMetrics
        IN /\ m.total = total
           /\ m.successful = Cardinality({x \in S : requests[x[1]][x[2]].success})
           /\ m.successful + m.failed = m.total
           /\ total > 0 =>
                 /\ 2 * m.averageResponseTime * total - total <= 2 * sumLatency
                 /\ 2 * sumLatency < 2 * m.averageResponseTime * total + total
                 /\ m.errorRate # Undefined
                 /\ m.errorRate[2] # 0
                 /\ m.errorRate[1] * total = m.failed * m.errorRate[2]
           /\ SumCounts([k \in DOMAIN m.endpoints |-> m.endpoints[k].total],
                        DOMAIN m.endpoints) = m.total

\* three status-200 requests to one endpoint with latencies 100, 200, 300 were
\* queried: total 3, successful 3, failed 0, average 200, errorRate 0
C4_Witness ==
    /\ reqSince # <<>>
    /\ \E k \in DOMAIN requests :
          /\ Len(requests[k]) = 3
          /\ \A i \in 1..3 : requests[k][i].responseTime = 100 * i
                             /\ requests[k][i].statusCode = 200
    /\ reqMetrics.total = 3
    /\ reqMetrics.successful = 3
    /\ reqMetrics.failed = 0
    /\ reqMetrics.averageResponseTime = 200
    /\ reqMetrics.errorRate = Quotient(0, 3)

\* C5: a query that matches no record (empty store, or every record older
\* than since) returns total, successful, failed, average latency and
\* errorRate all present and equal to 0.
C5_EmptyQueryAllZero ==
    (reqSince # <<>> /\ Matching(reqSince[1]) = {}) =>
        /\ reqMetrics.total = 0
        /\ reqMetrics.successful = 0
        /\ reqMetrics.failed = 0
        /\ reqMetrics.averageResponseTime = 0
        /\ reqMetrics.errorRate # Undefined
        /\ reqMetrics.errorRate[1] = 0

(***************************************************************************)
(* Claims about the health evaluator and the alerts route                  *)
(***************************************************************************)
\* C3: when performHealthCheck has run its six checks, overall is critical
\* if at least one check was critical, error or threw; otherwise warning if
\* at least one was warning; otherwise healthy.
C3_OverallIsWorst ==
    hcPc = "done" =>
        LET got == {hcOutcomes[name] : name \in DOMAIN hcOutcomes}
        IN /\ DOMAIN hcOutcomes = Range(HealthCheckNames)
           /\ hcOverall = IF got \cap {"critical", "error", "throw"} # {} THEN "critical"
                          ELSE IF "warning" \in got THEN "warning"
                          ELSE "healthy"

\* a pass in which a critical check was followed by a warning one has ended
\* with overall critical
C3_Witness ==
    /\ hcPc = "done"
    /\ hcOutcomes["database"] = "critical"
    /\ hcOutcomes["storage"] = "warning"
    /\ hcOutcomes["network"] = "healthy"
    /\ hcOverall = "critical"

\* the alerts of the health check (filtered as requested) followed by the
\* performance alerts: the list handed to sort
MergedAlerts == FilterAlerts(hcAlerts, alertQuery) \o alertPerf

WithSeverity(alerts, severity) == SelectSeq(alerts, LAMBDA al : al.severity = severity)

\* C8: the alerts endpoint returns the merged list sorted critical, then
\* warning, then info, alerts of equal severity in the order they have in the
\* merged list.
C8_AlertsSortedStable ==
    hcPc = "responded" =>
        alertItems = WithSeverity(MergedAlerts, "critical")
                     \o WithSeverity(MergedAlerts, "warning")
                     \o WithSeverity(MergedAlerts, "info")

\* [warning, critical, critical, info] was merged and came out as the two
\* criticals in their order, then the warning, then the info
C8_Witness ==
    /\ hcPc = "responded"
    /\ Len(MergedAlerts) = 4
    /\ MergedAlerts[1].severity = "warning"
    /\ MergedAlerts[2].severity = "critical"
    /\ MergedAlerts[3].severity = "critical"
    /\ MergedAlerts[4].severity = "info"
    /\ alertItems = <<MergedAlerts[2], MergedAlerts[3], MergedAlerts[1], MergedAlerts[4]>>

(***************************************************************************)
(* Claims about the bucketed history                                       *)
(***************************************************************************)
\* C9: for range 24h with history, 24 buckets are returned, consecutive
\* one-hour intervals [start, end) ending at now, each counting the returned
\* events of its interval, and the bucket counts sum to the un-bucketed count.
C9_BucketsSumToTotal ==
    (mPc = "done" /\ mRange = "24h" /\ mWithHistory) =>
        /\ Len(mHistory) = 24
        /\ \A j \in 1..23 : mHistory[j + 1].timestamp = mHistory[j].timestamp + OneHourMs
        /\ mHistory[24].timestamp + OneHourMs = mNow
        /\ \A j \in 1..24 :
              mHistory[j].mediaUploads =
                  Cardinality({r \in DOMAIN mRows :
                                  /\ mRows[r] >= mHistory[j].timestamp
                                  /\ mRows[r] < mHistory[j].timestamp + OneHourMs})
        /\ SumCounts([j \in 1..24 |-> mHistory[j].mediaUploads], 1..24) = mUploads

ErrorTypes ==
    {"ValidationError", "AuthenticationError", "DatabaseError", "SystemError",
     "TestError", "__proto__"}
ErrorMessages == {"boom"}
NodeEnvs == {"development", "production"}

MaxErrInserts == 3

InitErrorSpec ==
    /\ InitStore
    /\ InitIdlePattern
    /\ InitHealth
    /\ InitIdleMemory
    /\ InitBuckets /\ InitPlatform
    /\ InitSnapshots
    /\ nodeEnv \in NodeEnvs
    /\ resStatus = 0
    /\ teType = ""
    /\ teMessage = ""

NextErrors ==
    \/ \E type \in ErrorTypes, message \in ErrorMessages :
          /\ TotalErrRecorded < MaxErrInserts
          /\ TestError(type, message, 100)
          /\ UNCHANGED <<patternVars, healthVars, memoryVars, bucketVars, snapshotVars, platformVars>>
    \/ \E d \in TickSteps :
          /\ ticks < MaxTicks
          /\ Tick(d)
          /\ UNCHANGED <<patternVars, healthVars, memoryVars, bucketVars, routeVars, snapshotVars, platformVars>>
    \/ CleanOldMetrics
          /\ UNCHANGED <<patternVars, healthVars, memoryVars, bucketVars, routeVars, snapshotVars, platformVars>>
    \/ \E range \in QueryRanges :
          /\ QueryErrors(range)
          /\ UNCHANGED <<patternVars, healthVars, memoryVars, bucketVars, routeVars, snapshotVars, platformVars>>

SpecErrors == InitErrorSpec /\ [][NextErrors]_vars

(***************************************************************************)
(* Claims about the error store                                            *)
(***************************************************************************)
\* the taxonomy: the severity each kind of error is given
SpecifiedSeverity(kind) ==
    CASE kind = "ValidationError" -> "low"
      [] kind = "AuthenticationError" -> "medium"
      [] kind = "DatabaseError" -> "high"
      [] kind = "SystemError" -> "critical"
      [] OTHER -> "medium"

\* the positions of the records of a log with timestamp >= since
Since(log, since) == {i \in DOMAIN log : log[i].timestamp >= since}

\* C11: every stored error record has the severity of its kind (ValidationError
\* low, AuthenticationError medium, DatabaseError high, SystemError critical,
\* any other kind medium), and getErrorMetrics(since) counts every stored
\* record with timestamp >= since under its kind and under its severity.
C11_SeverityByKind ==
    /\ \A k \in DOMAIN errors : \A i \in DOMAIN errors[k] :
          errors[k][i].severity = SpecifiedSeverity(k)
    /\ errSince # <<>> =>
          /\ \A k \in DOMAIN errors :
                Since(errors[k], errSince[1]) # {} =>
                    /\ k \in DOMAIN errMetrics.byType
                    /\ errMetrics.byType[k] = Cardinality(Since(errors[k], errSince[1]))
          /\ \A sev \in Severities :
                errMetrics.bySeverity[sev] =
                    SumCounts([k \in DOMAIN errors |->
                                  Cardinality({i \in Since(errors[k], errSince[1]) :
                                                  errors[k][i].severity = sev})],
                              DOMAIN errors)

\* the places <<kind, index>> of the stored error records with timestamp >= since
MatchingErrors(since) ==
    UNION {{<<k, i>> : i \in Since(errors[k], since)} : k \in DOMAIN errors}

\* C12: 'recent' of getErrorMetrics(since) holds the 20 most recent error
\* records with timestamp >= since over all kinds together (all of them when
\* fewer than 20 match), newest first; also when more than 10 of them are of
\* one kind.
C12_RecentTop20 ==
    errSince # <<>> =>
        LET all == MatchingErrors(errSince[1])
            recent == errMetrics.recent
            shown == {x \in all : \E j \in DOMAIN recent :
                                     /\ recent[j].type = x[1]
                                     /\ recent[j].n = errors[x[1]][x[2]].n}
        IN /\ Len(recent) = IF Cardinality(all) < 20 THEN Cardinality(all) ELSE 20
           /\ Cardinality(shown) = Len(recent)
           /\ \A j \in 1..(Len(recent) - 1) :
                 recent[j].timestamp >= recent[j + 1].timestamp
           /\ \A x \in all \ shown : \A j \in DOMAIN recent :
                 errors[x[1]][x[2]].timestamp <= recent[j].timestamp

RouteOutcomes == {"healthy", "warning", "error"}
FailureNames == {"TypeError"}

MaxHealthFailures == 1

NextHealthRoute ==
    \/ StartHealthCheck
          /\ UNCHANGED <<patternVars, storeVars, memoryVars, bucketVars, routeVars, snapshotVars, platformVars>>
    \/ \E outcome \in RouteOutcomes :
          /\ RunCheck(outcome)
          /\ UNCHANGED <<patternVars, storeVars, memoryVars, bucketVars, routeVars, snapshotVars, platformVars>>
    \/ FinishHealthCheck
          /\ UNCHANGED <<patternVars, storeVars, memoryVars, bucketVars, routeVars, snapshotVars, platformVars>>
    \/ \E name \in FailureNames :
          /\ TotalErrRecorded < MaxHealthFailures
          /\ FailHealthCheck(name)
          /\ UNCHANGED <<patternVars, memoryVars, bucketVars, routeVars, snapshotVars, platformVars>>
    \/ HealthRoute
          /\ UNCHANGED <<patternVars, storeVars, memoryVars, bucketVars, snapshotVars, platformVars>>

SpecHealthRoute == InitHealthSpec /\ [][NextHealthRoute]_vars

\* C14: the health endpoint answers 503 exactly when the overall status of
\* the health result is critical or error (error being what the middleware
\* substitutes when the evaluation threw), and 200 for healthy and warning.
C14_HealthStatusCode ==
    hcPc = "answered" =>
        /\ resStatus = 503 <=> hcOverall \in {"critical", "error"}
        /\ hcOverall \in {"healthy", "warning"} => resStatus = 200

\* the evaluation threw, the middleware substituted overall = error and the
\* route answered 503
C14_Witness ==
    /\ hcPc = "answered"
    /\ hcOverall = "error"
    /\ "TypeError" \in DOMAIN errors
    /\ resStatus = 503

\* C17: a pass of performHealthCheck runs all six checks: every check that
\* threw has its own component with status error and a critical alert, and
\* every other check has its result among the components.
C17_AllChecksRun ==
    hcPc = "done" =>
        /\ DOMAIN hcOutcomes = Range(HealthCheckNames)
        /\ DOMAIN hcComponents = Range(HealthCheckNames)
        /\ \A name \in Range(HealthCheckNames) :
              IF hcOutcomes[name] = "throw"
              THEN /\ hcComponents[name] = "error"
                   /\ \E i \in DOMAIN hcAlerts :
                         hcAlerts[i].component = name /\ hcAlerts[i].severity = "critical"
              ELSE hcComponents[name] = hcOutcomes[name]

\* the first and the fourth check threw, and the checks after them still ran
C17_Witness ==
    /\ hcPc = "done"
    /\ hcOutcomes["database"] = "throw"
    /\ hcOutcomes["disk"] = "throw"
    /\ hcComponents["storage"] = "warning"
    /\ hcComponents["network"] = "healthy"
    /\ hcComponents["database"] = "error"

HookPaths == {PathMedia42, PathPlayerCode}
HookStatuses == {200, 404, 500}
HookBodies == {BodyNull, BodyText, BodyPlain, BodyError, BodyErrorCode}

MaxHookInserts == 2

NextHook ==
    \/ \E path \in HookPaths, statusCode \in HookStatuses, data \in HookBodies :
          /\ TotalRecorded < MaxHookInserts
          /\ RecordMetrics(path, MethodGet, statusCode, 100, data)
          /\ UNCHANGED <<patternVars, healthVars, memoryVars, bucketVars, routeVars, snapshotVars, platformVars>>
    \/ \E range \in QueryRanges :
          /\ QueryErrors(range)
          /\ UNCHANGED <<patternVars, healthVars, memoryVars, bucketVars, routeVars, snapshotVars, platformVars>>

SpecHook == Init /\ [][NextHook]_vars

\* C16: for every status code and every body handed to res.send or res.json
\* (null, a string, an object with or without an 'error' field) the recording
\* hook completes without throwing and the original send/json is invoked.
C16_HookNeverThrows == hook \in {"none", "sent"}

(***************************************************************************)
(* performHealthCheck while a backend may stop answering                   *)
(***************************************************************************)
\* the checks that await a call to the backend: checkDatabaseHealth awaits
\* the profiles query, checkStorageHealth awaits listBuckets
BackendChecks == {"database", "storage"}
LiveOutcomes == {"healthy", "critical", "throw"}

\* the backend stops answering the calls of one check: the promise the check
\* awaits is never settled, and nothing in the check or in the loop bounds
\* the wait
BackendStalls(name) ==
    /\ name \notin stalled
    /\ stalled' = stalled \cup {name}
    /\ UNCHANGED <<hcPc, hcIndex, hcOverall, hcComponents, hcOutcomes, hcAlerts,
                   alertQuery, alertPerf, alertItems>>

\* the steps the event loop takes once the awaited promise is settled
HealthCheckStep ==
    /\ \/ \E outcome \in LiveOutcomes : RunCheck(outcome)
       \/ FinishHealthCheck
    /\ UNCHANGED <<patternVars, storeVars, memoryVars, bucketVars, routeVars, snapshotVars, platformVars>>

NextHealthLive ==
    \/ StartHealthCheck
          /\ UNCHANGED <<patternVars, storeVars, memoryVars, bucketVars, routeVars, snapshotVars, platformVars>>
    \/ \E outcome \in LiveOutcomes :
          /\ RunCheck(outcome)
          /\ UNCHANGED <<patternVars, storeVars, memoryVars, bucketVars, routeVars, snapshotVars, platformVars>>
    \/ FinishHealthCheck
          /\ UNCHANGED <<patternVars, storeVars, memoryVars, bucketVars, routeVars, snapshotVars, platformVars>>
    \/ \E name \in BackendChecks :
          /\ BackendStalls(name)
          /\ UNCHANGED <<patternVars, storeVars, memoryVars, bucketVars, routeVars, snapshotVars, platformVars>>

SpecHealthLive == InitHealthSpec /\ [][NextHealthLive]_vars /\ WF_vars(HealthCheckStep)

\* C18: every invocation of performHealthCheck eventually returns its result,
\* also when the backend call of a check never completes.
C18_EventuallyReturns == (hcPc = "checking") ~> (hcPc = "done")

(***************************************************************************)
(* The snapshot collector: from construction, and from the state after 99  *)
(* samples taken 30 s apart                                                *)
(***************************************************************************)
PrefilledSnapshots ==
    [t \in {SampleIntervalMs * i : i \in 1..(MaxSnapshots - 1)} |-> [timestamp |-> t]]

MaxInFlight == 2
MaxSnapTicks == 4
MaxCollectFailures == 1

InitSnapshotSpec ==
    /\ InitIdlePattern
    /\ InitHealth
    /\ InitIdleMemory
    /\ InitBuckets /\ InitPlatform
    /\ InitRoutes
    /\ ticks = 0
    /\ requests = EmptyMap
    /\ errors = EmptyMap
    /\ errorKeys = <<>>
    /\ recorded = EmptyMap
    /\ errRecorded = EmptyMap
    /\ hook = "none"
    /\ reqMetrics = NoMetrics
    /\ reqSince = <<>>
    /\ errMetrics = NoErrMetrics
    /\ errSince = <<>>
    /\ pruneHorizon = <<>>
    /\ collecting = <<>>
    /\ stored = <<>>
    /\ evicted = <<>>
    /\ latest = <<>>
    /\ \/ now = 0 /\ system = EmptyMap /\ sampled = 0
       \/ /\ now = SampleIntervalMs * (MaxSnapshots - 1)
          /\ system = PrefilledSnapshots
          /\ sampled = MaxSnapshots - 1

NextSnapshots ==
    \/ /\ Len(collecting) < MaxInFlight
       /\ StartCollect
       /\ UNCHANGED <<patternVars, storeVars, healthVars, memoryVars, bucketVars, routeVars, platformVars>>
    \/ \E i \in 1..MaxInFlight :
          /\ CompleteCollect(i)
          /\ UNCHANGED <<patternVars, storeVars, healthVars, memoryVars, bucketVars, routeVars, platformVars>>
    \/ \E i \in 1..MaxInFlight, name \in FailureNames :
          /\ TotalErrRecorded < MaxCollectFailures
          /\ CollectFails(i, name)
          /\ UNCHANGED <<patternVars, healthVars, memoryVars, bucketVars, routeVars, platformVars>>
    \/ getLatestSystemMetrics
          /\ UNCHANGED <<patternVars, storeVars, healthVars, memoryVars, bucketVars, routeVars, platformVars>>
    \/ /\ ticks < MaxSnapTicks
       /\ Tick(SampleIntervalMs)
       /\ UNCHANGED <<patternVars, healthVars, memoryVars, bucketVars, routeVars, snapshotVars, platformVars>>
    \/ CleanOldMetrics
          /\ UNCHANGED <<patternVars, healthVars, memoryVars, bucketVars, routeVars, snapshotVars, platformVars>>

SpecSnapshots == InitSnapshotSpec /\ [][NextSnapshots]_vars

\* C19: the snapshot store never holds more than 100 snapshots; a run that
\* stores into a full store removes the snapshot with the smallest timestamp
\* key; getLatestSystemMetrics returns the stored snapshot with the largest
\* timestamp, and null exactly when no sample has completed yet; in every
\* interleaving of overlapping collectSystemMetrics runs.
C19_SnapshotsBounded ==
    /\ [](/\ Cardinality(DOMAIN system) <= 100
          /\ latest # <<>> =>
                /\ latest[1] = Null <=> sampled = 0
                /\ sampled > 0 =>
                      /\ latest[1].timestamp \in DOMAIN system
                      /\ latest[1] = system[latest[1].timestamp]
                      /\ \A t \in DOMAIN system : t <= latest[1].timestamp)
    /\ [][(sampled' # sampled /\ Cardinality(DOMAIN system) = 100
           /\ stored'[1] \notin DOMAIN system) =>
             LET keys == DOMAIN system \cup {stored'[1]}
                 smallest == CHOOSE x \in keys : \A y \in keys : x <= y
             IN /\ DOMAIN system' = keys \ {smallest}
                /\ evicted' = <<smallest>>]_vars

\* two runs overlapped and the older one stored last, into a full store, so
\* that a key was deleted; getLatestSystemMetrics then returned the newer one
C19_Witness ==
    /\ Cardinality(DOMAIN system) = 100
    /\ evicted # <<>>
    /\ stored # <<>>
    /\ \E t \in DOMAIN system : t > stored[1]
    /\ latest # <<>>
    /\ latest[1].timestamp > stored[1]

(***************************************************************************)
(* The pruner among recordings: a server that has taken 99 samples and now *)
(* serves requests                                                         *)
(***************************************************************************)
PrunePaths == {PathMedia42, PathPlayerCode}

MaxPruneInserts == 3

InitPruneSpec ==
    /\ InitIdlePattern
    /\ InitHealth
    /\ InitIdleMemory
    /\ InitBuckets /\ InitPlatform
    /\ InitRoutes
    /\ now = SampleIntervalMs * (MaxSnapshots - 1)
    /\ ticks = 0
    /\ requests = EmptyMap
    /\ errors = EmptyMap
    /\ errorKeys = <<>>
    /\ recorded = EmptyMap
    /\ errRecorded = EmptyMap
    /\ hook = "none"
    /\ reqMetrics = NoMetrics
    /\ reqSince = <<>>
    /\ errMetrics = NoErrMetrics
    /\ errSince = <<>>
    /\ pruneHorizon = <<>>
    /\ system = PrefilledSnapshots
    /\ collecting = <<>>
    /\ sampled = MaxSnapshots - 1
    /\ stored = <<>>
    /\ evicted = <<>>
    /\ latest = <<>>

NextPrune ==
    \/ \E path \in PrunePaths, statusCode \in StoreStatuses, data \in StoreBodies :
          /\ TotalRecorded < MaxPruneInserts
          /\ RecordMetrics(path, MethodGet, statusCode, 100, data)
          /\ UNCHANGED <<patternVars, healthVars, memoryVars, bucketVars, routeVars, snapshotVars, platformVars>>
    \/ \E name \in DirectErrorNames :
          /\ TotalErrRecorded < MaxPruneInserts
          /\ RecordErrorCall(name)
          /\ UNCHANGED <<patternVars, healthVars, memoryVars, bucketVars, routeVars, snapshotVars, platformVars>>
    \/ \E d \in TickSteps :
          /\ ticks < MaxTicks
          /\ Tick(d)
          /\ UNCHANGED <<patternVars, healthVars, memoryVars, bucketVars, routeVars, snapshotVars, platformVars>>
    \/ CleanOldMetrics
          /\ UNCHANGED <<patternVars, healthVars, memoryVars, bucketVars, routeVars, snapshotVars, platformVars>>

SpecPrune == InitPruneSpec /\ [][NextPrune]_vars

\* the records of a log that are not older than the horizon, in their order
NotOlderThan(log, horizon) == SelectSeq(log, LAMBDA r : r.timestamp >= horizon)

\* every record of the old log is in the new one, or the new log is full
KeptOrEvicted(old, new, cap) ==
    \A i \in DOMAIN old : (\E j \in DOMAIN new : new[j] = old[i]) \/ Len(new) = cap

\* C20: a prune pass removes from every request key and every error kind
\* exactly the records older than the retention horizon (one hour before the
\* pass), keeps the others in their order and leaves the snapshot store
\* unchanged; the recordings between the passes lose no record.
C20_PruneExact ==
    /\ [][pruneHorizon' # <<>> =>
             /\ pruneHorizon'[1] = now - 60 * 60 * 1000
             /\ DOMAIN requests' = DOMAIN requests
             /\ \A k \in DOMAIN requests :
                   requests'[k] = NotOlderThan(requests[k], pruneHorizon'[1])
             /\ DOMAIN errors' = DOMAIN errors
             /\ \A k \in DOMAIN errors :
                   errors'[k] = NotOlderThan(errors[k], pruneHorizon'[1])
             /\ system' = system]_vars
    /\ [][pruneHorizon' = <<>> =>
             /\ \A k \in DOMAIN requests :
                   KeptOrEvicted(requests[k], Log(requests', k), 1000)
             /\ \A k \in DOMAIN errors :
                   KeptOrEvicted(errors[k], Log(errors', k), 500)]_vars

\* a pass has removed a record of a key and kept one whose timestamp is
\* exactly the horizon, with snapshots in the store
C20_Witness ==
    /\ pruneHorizon # <<>>
    /\ system # EmptyMap
    /\ \E k \in DOMAIN requests :
          /\ recorded[k] > Len(requests[k])
          /\ requests[k] # <<>>
          /\ requests[k][1].timestamp = pruneHorizon[1]
    /\ \E k \in DOMAIN errors : errors[k] # <<>> /\ errRecorded[k] > Len(errors[k])

(***************************************************************************)
(* Claims about the alerts of a health pass                                *)
(***************************************************************************)
\* the alerts of a pass that name a component, with a severity
AlertsOf(name, severity) ==
    {i \in DOMAIN hcAlerts :
        hcAlerts[i].component = name /\ hcAlerts[i].severity = severity}

\* the checks evaluated before position p of the pass
Before(p) == {HealthCheckNames[q] : q \in 1..(p - 1)}

\* C23: the alerts of a finished pass hold exactly one critical alert for
\* each check that was error, critical or threw, and a warning alert for a
\* warning check exactly when overall was still healthy when it was
\* evaluated; so alerts is empty exactly when overall is healthy and a pass
\* produces at most one warning alert.
C23_AlertsMatchChecks ==
    hcPc = "done" =>
        /\ \A p \in DOMAIN HealthCheckNames :
              LET name == HealthCheckNames[p]
                  stillHealthy == \A earlier \in Before(p) : hcOutcomes[earlier] = "healthy"
              IN /\ Cardinality(AlertsOf(name, "critical"))
                       = IF hcOutcomes[name] \in {"error", "critical", "throw"} THEN 1 ELSE 0
                 /\ Cardinality(AlertsOf(name, "warning"))
                       = IF hcOutcomes[name] = "warning" /\ stillHealthy THEN 1 ELSE 0
        /\ \A i \in DOMAIN hcAlerts : hcAlerts[i].severity \in {"critical", "warning"}
        /\ hcAlerts = <<>> <=> hcOverall = "healthy"
        /\ Cardinality({i \in DOMAIN hcAlerts : hcAlerts[i].severity = "warning"}) <= 1

\* a pass with two warning checks and a critical one between them ended with
\* one warning alert and one critical alert
C23_Witness ==
    /\ hcPc = "done"
    /\ hcOutcomes["database"] = "warning"
    /\ hcOutcomes["storage"] = "critical"
    /\ hcOutcomes["memory"] = "warning"
    /\ Len(hcAlerts) = 2

(***************************************************************************)
(* The periodic tasks: sampler every 30 s, pruner every 5 min              *)
(***************************************************************************)
\* this.recordError(error, { context: 'system_metrics_collection' })
SamplerContext == "system_metrics_collection"

\* the sampler's interval fires: collectSystemMetrics starts a run
SamplerStarts ==
    /\ alive
    /\ StartCollect
    /\ UNCHANGED timerVars

SamplerCompletes(i) ==
    /\ alive
    /\ CompleteCollect(i)
    /\ UNCHANGED timerVars

\* a reading throws inside collectSystemMetrics: its catch block records the
\* error with the sampler's context tag, and the callback returns normally
SamplerFails(i, name) ==
    /\ alive
    /\ CollectFails(i, name)
    /\ failedTask' = "sampler"
    /\ failContext' = SamplerContext
    /\ UNCHANGED alive

\* the pruner's interval fires and cleanOldMetrics runs to its end
PrunerRuns ==
    /\ alive
    /\ CleanOldMetrics
    /\ UNCHANGED timerVars

\* an exception is raised inside cleanOldMetrics: neither the function nor the
\* interval callback has a catch block and the process installs no
\* 'uncaughtException' handler, so the exception ends the process; nothing is
\* recorded and no timer fires again
PrunerFails ==
    /\ alive
    /\ alive' = FALSE
    /\ failedTask' = "pruner"
    /\ failContext' = ""
    /\ UNCHANGED <<storeVars, snapshotVars>>

TimerTick ==
    /\ alive
    /\ ticks < MaxSnapTicks
    /\ Tick(SampleIntervalMs)

InitTimerSpec == InitSnapshotSpec

NextTimers ==
    \/ /\ Len(collecting) < MaxInFlight
       /\ SamplerStarts
       /\ UNCHANGED <<patternVars, storeVars, healthVars, memoryVars, bucketVars, routeVars, besideTimers>>
    \/ \E i \in 1..MaxInFlight :
          /\ SamplerCompletes(i)
          /\ UNCHANGED <<patternVars, storeVars, healthVars, memoryVars, bucketVars, routeVars, besideTimers>>
    \/ \E i \in 1..MaxInFlight, name \in FailureNames :
          /\ TotalErrRecorded < MaxCollectFailures
          /\ SamplerFails(i, name)
          /\ UNCHANGED <<patternVars, healthVars, memoryVars, bucketVars, routeVars, besideTimers>>
    \/ PrunerRuns
          /\ UNCHANGED <<patternVars, healthVars, memoryVars, bucketVars, routeVars, snapshotVars, besideTimers>>
    \/ PrunerFails
          /\ UNCHANGED <<patternVars, healthVars, memoryVars, bucketVars, routeVars, besideTimers>>
    \/ TimerTick
          /\ UNCHANGED <<patternVars, healthVars, memoryVars, bucketVars, routeVars, snapshotVars, platformVars>>

SpecTimers == InitTimerSpec /\ [][NextTimers]_vars

\* C21: a failure inside either periodic task is caught and recorded as an
\* error with a fixed context tag naming the task, and stops neither timer:
\* after a failed run the process is alive, so both tasks run again on their
\* next tick.
C21_TaskFailuresCaught ==
    failedTask # "none" =>
        /\ alive
        /\ failContext # ""
        /\ TotalErrRecorded >= 1

(***************************************************************************)
(* Responses through the overridden res.send and res.json                  *)
(***************************************************************************)
\* res.send(data) of a handler: recordMetrics, then the original send
ResSend(path, statusCode, responseTime, data) ==
    /\ pending = <<>>
    /\ RecordMetrics(path, MethodGet, statusCode, responseTime, data)
    /\ responses' = responses + 1
    /\ errorResponses' = errorResponses + (IF statusCode >= 400 THEN 1 ELSE 0)
    /\ UNCHANGED pending

\* res.json(data) of a handler: recordMetrics, then the original json, which
\* serialises data and is about to call this.send with the text
ResJson(path, statusCode, responseTime, data) ==
    /\ pending = <<>>
    /\ RecordMetrics(path, MethodGet, statusCode, responseTime, data)
    /\ responses' = responses + 1
    /\ errorResponses' = errorResponses + (IF statusCode >= 400 THEN 1 ELSE 0)
    /\ pending' = <<[path |-> path, statusCode |-> statusCode, responseTime |-> responseTime]>>

\* the original json calls this.send(body): send on the response object is
\* the overridden one, so recordMetrics runs again, now with a string
JsonCallsSend ==
    /\ pending # <<>>
    /\ RecordMetrics(pending[1].path, MethodGet, pending[1].statusCode,
                     pending[1].responseTime, BodyText)
    /\ pending' = <<>>
    /\ UNCHANGED <<responses, errorResponses>>

ResponsePaths == {PathMedia42, PathPlayerCode}
ResponseStatuses == {200, 404}
JsonBodies == {BodyPlain, BodyError, BodyErrorCode}
MaxResponses == 2

NextResponses ==
    \/ \E path \in ResponsePaths, statusCode \in ResponseStatuses, responseTime \in StoreLatencies :
          /\ responses < MaxResponses
          /\ ResSend(path, statusCode, responseTime, BodyText)
          /\ UNCHANGED <<patternVars, healthVars, memoryVars, bucketVars, routeVars, snapshotVars, besideResponses>>
    \/ \E path \in ResponsePaths, statusCode \in ResponseStatuses, responseTime \in StoreLatencies,
          data \in JsonBodies :
          /\ responses < MaxResponses
          /\ ResJson(path, statusCode, responseTime, data)
          /\ UNCHANGED <<patternVars, healthVars, memoryVars, bucketVars, routeVars, snapshotVars, besideResponses>>
    \/ JsonCallsSend
          /\ UNCHANGED <<patternVars, healthVars, memoryVars, bucketVars, routeVars, snapshotVars, besideResponses>>
    \/ \E d \in TickSteps :
          /\ ticks < MaxTicks
          /\ pending = <<>>
          /\ Tick(d)
          /\ UNCHANGED <<patternVars, healthVars, memoryVars, bucketVars, routeVars, snapshotVars, platformVars>>

SpecResponses == Init /\ [][NextResponses]_vars

\* C22: every response sent through res.send or res.json has recorded exactly
\* one RequestRecord, and exactly one ErrorRecord when its status code is 400
\* or more, also when res.json goes on to call res.send on the same object.
C22_OneRecordPerResponse ==
    pending = <<>> =>
        /\ TotalRecorded = responses
        /\ TotalErrRecorded = errorResponses

(***************************************************************************)
(* The rate limiter and the clear-cache endpoint                           *)
(***************************************************************************)
\* setInterval(..., 60000) of the cleanup
CleanupIntervalMs == 60000

\* setTimeout(..., 5 * 60 * 1000) of clear-cache
DisabledForMs == 300000

\* statusCode = 429
LimitStatus == 429

\* max of the two limiters of the model: the source's 10000 and 5000, scaled
ApiMax == 3
DashboardMax == 2

\* apiLimiter on /api/ and dashboardLimiter on /api/dashboard: both use the
\* default keyGenerator req.ip and the one rateLimitStore
Limiters ==
    {[name |-> "api", windowMs |-> 900000, max |-> ApiMax],
     [name |-> "dashboard", windowMs |-> 60000, max |-> DashboardMax]}

LimiterKeys == {"10.0.0.1", "10.0.0.2"}

\* process.env.NODE_ENV === 'development' || process.env.DISABLE_RATE_LIMITING === 'true'
Skipping == nodeEnv = "development" \/ disableFlag

\* now >= hitData.resetTime
WindowExpired_atResetTime(at, resetTime) == at >= resetTime

\* now > hitData.resetTime
WindowExpired(at, resetTime) == at > resetTime

\* the entry the middleware counts the request on
HitData(key, windowMs) ==
    LET fresh == [count |-> 0, resetTime |-> clock + windowMs]
    IN IF key \notin DOMAIN rateLimitStore THEN fresh
       ELSE IF WindowExpired(clock, rateLimitStore[key].resetTime) THEN fresh
       ELSE rateLimitStore[key]

\* the middleware returned by createRateLimit, on a request with this key
LimiterRequest(limiter, key) ==
    IF Skipping
    THEN /\ lastRequest' = <<>>
         /\ limiterCalls' = limiterCalls + 1
         /\ UNCHANGED <<clock, rateLimitStore, disableFlag, reenableTimers, lastClear,
                        passed, lastCleanup>>
    ELSE LET hitData == HitData(key, limiter.windowMs)
             count == hitData.count + 1
             status == IF count > limiter.max THEN LimitStatus ELSE 200
             sameWindow == key \in DOMAIN rateLimitStore /\ hitData = rateLimitStore[key]
             before == [l \in {x.name : x \in Limiters} |->
                          IF sameWindow /\ <<l, key>> \in DOMAIN passed
                          THEN passed[<<l, key>>] ELSE 0]
         IN /\ rateLimitStore' = MapSet(rateLimitStore, key,
                                        [count |-> count, resetTime |-> hitData.resetTime])
            /\ passed' = [p \in DOMAIN passed \cup {<<x.name, key>> : x \in Limiters} |->
                            IF p[2] # key THEN passed[p]
                            ELSE before[p[1]]
                                 + (IF p[1] = limiter.name /\ status = 200 THEN 1 ELSE 0)]
            /\ lastRequest' = <<[key |-> key, at |-> clock, status |-> status,
                                 max |-> limiter.max, count |-> count,
                                 before |-> IF key \in DOMAIN rateLimitStore
                                            THEN <<rateLimitStore[key]>> ELSE <<>>]>>
            /\ limiterCalls' = limiterCalls + 1
            /\ UNCHANGED <<clock, disableFlag, reenableTimers, lastClear, lastCleanup>>

\* the cleanup interval fires
LimiterCleanup ==
    LET old == {key \in DOMAIN rateLimitStore : clock - rateLimitStore[key].resetTime > 0}
    IN /\ rateLimitStore' = [key \in DOMAIN rateLimitStore \ old |-> rateLimitStore[key]]
       /\ passed' = [p \in {q \in DOMAIN passed : q[2] \notin old} |-> passed[p]]
       /\ lastCleanup' = <<[at |-> clock,
                            removed |-> {rateLimitStore[key].resetTime : key \in old}]>>
       /\ lastRequest' = <<>>
       /\ UNCHANGED <<clock, disableFlag, reenableTimers, lastClear, limiterCalls>>

\* POST /api/clear-cache
ClearCache ==
    /\ rateLimitStore' = <<>>
    /\ passed' = <<>>
    /\ disableFlag' = TRUE
    /\ reenableTimers' = reenableTimers \cup {clock + DisabledForMs}
    /\ lastClear' = <<clock>>
    /\ lastRequest' = <<>>
    /\ limiterCalls' = limiterCalls + 1
    /\ UNCHANGED <<clock, lastCleanup>>

\* a timer of clear-cache is due: delete process.env.DISABLE_RATE_LIMITING
ReenableTimerFires ==
    /\ \E due \in reenableTimers :
          /\ due <= clock
          /\ reenableTimers' = reenableTimers \ {due}
    /\ disableFlag' = FALSE
    /\ UNCHANGED <<clock, rateLimitStore, lastClear, passed, lastRequest, lastCleanup,
                   limiterCalls>>

\* time passes; a due timer fires before time passes on
LimiterTick(d) ==
    /\ \A due \in reenableTimers : clock + d <= due
    /\ clock' = clock + d
    /\ limiterCalls' = limiterCalls + 1
    /\ UNCHANGED <<rateLimitStore, disableFlag, reenableTimers, lastClear, passed,
                   lastRequest, lastCleanup>>

LimiterSteps == {60000, 120000, 900000}
MaxLimiterCalls == 6

InitLimiterSpec ==
    /\ InitStore
    /\ InitIdlePattern
    /\ InitHealth
    /\ InitIdleMemory
    /\ InitBuckets
    /\ InitSnapshots
    /\ InitPlatform
    /\ nodeEnv \in NodeEnvs
    /\ resStatus = 0
    /\ teType = ""
    /\ teMessage = ""

NextLimiter ==
    \/ \E limiter \in Limiters, key \in LimiterKeys :
          /\ limiterCalls < MaxLimiterCalls
          /\ LimiterRequest(limiter, key)
          /\ UNCHANGED <<patternVars, storeVars, healthVars, memoryVars, bucketVars, routeVars, snapshotVars, besideLimiter>>
    \/ LimiterCleanup
          /\ UNCHANGED <<patternVars, storeVars, healthVars, memoryVars, bucketVars, routeVars, snapshotVars, besideLimiter>>
    \/ /\ limiterCalls < MaxLimiterCalls
       /\ ClearCache
       /\ UNCHANGED <<patternVars, storeVars, healthVars, memoryVars, bucketVars, routeVars, snapshotVars, besideLimiter>>
    \/ ReenableTimerFires
          /\ UNCHANGED <<patternVars, storeVars, healthVars, memoryVars, bucketVars, routeVars, snapshotVars, besideLimiter>>
    \/ \E d \in LimiterSteps :
          /\ limiterCalls < MaxLimiterCalls
          /\ LimiterTick(d)
          /\ UNCHANGED <<patternVars, storeVars, healthVars, memoryVars, bucketVars, routeVars, snapshotVars, besideLimiter>>

SpecLimiter == InitLimiterSpec /\ [][NextLimiter]_vars

\* C25: after every successful clear-cache call rate limiting stays disabled
\* for the following 5 minutes and is enabled again afterwards, also when a
\* second call is made while the timer of the first is still pending.
C25_DisabledForFiveMinutes ==
    lastClear # <<>> =>
        /\ clock < lastClear[1] + DisabledForMs => Skipping
        /\ clock > lastClear[1] + DisabledForMs /\ nodeEnv # "development" => ~Skipping

MaxOf(name) == (CHOOSE limiter \in Limiters : limiter.name = name).max

\* C26: while rate limiting is enabled and the cache is not cleared, each
\* limiter passes on at most max requests per key within one window; a
\* request made in a window whose count has reached max is answered 429 and
\* still increases the count; the count starts again only when the time is
\* past resetTime; and the cleanup removes only expired windows.
C26_WindowLimit ==
    /\ \A p \in DOMAIN passed : passed[p] <= MaxOf(p[1])
    /\ lastRequest # <<>> =>
          LET r == lastRequest[1]
              inWindow == r.before # <<>> /\ r.at <= r.before[1].resetTime
          IN /\ rateLimitStore[r.key].count = r.count
             /\ inWindow => r.count = r.before[1].count + 1
             /\ inWindow /\ r.before[1].count >= r.max => r.status = LimitStatus
             /\ r.status = LimitStatus => r.count > r.max
             /\ r.before # <<>> /\ r.count <= r.before[1].count
                   => r.at > r.before[1].resetTime
    /\ lastCleanup # <<>> =>
          \A resetTime \in lastCleanup[1].removed : resetTime < lastCleanup[1].at

\* a request was answered 429 in a window that had already passed max
\* requests of the dashboard limiter, and was counted
C26_Witness ==
    /\ lastRequest # <<>>
    /\ lastRequest[1].status = LimitStatus
    /\ lastRequest[1].max = DashboardMax
    /\ lastRequest[1].before # <<>>
    /\ lastRequest[1].before[1].count > DashboardMax
    /\ passed[<<"dashboard", lastRequest[1].key>>] = DashboardMax

(***************************************************************************)
(* The token blacklist                                                     *)
(***************************************************************************)
\* tokenBlacklist.size > 1000
MaxBlacklist == 1000

\* expiresIn: '24h'
TokenLifeHours == 24

\* tokens are opaque strings; the model numbers them.  Tokens 1..999 are
\* tokens of earlier sessions, SignedTokens were issued by generateToken at
\* hour 0, ForgedToken carries a signature of another key
EarlierTokens == 1..(MaxBlacklist - 1)
SignedTokens == {MaxBlacklist, MaxBlacklist + 1, MaxBlacklist + 2}
ForgedToken == MaxBlacklist + 3
AuthTokens == SignedTokens \cup {ForgedToken}

\* jwt.verify(token, secret, {issuer, audience}): the payload, or a throw
\* (JsonWebTokenError for a bad signature, TokenExpiredError from exp on)
JwtVerify(token, hour) ==
    IF token = ForgedToken THEN "JsonWebTokenError"
    ELSE IF hour >= TokenLifeHours THEN "TokenExpiredError"
    ELSE "payload"

\* verifyToken(token): null, or the user of the token
VerifyResult(token, blacklist, hour) ==
    IF token \in blacklist THEN Null
    ELSE IF JwtVerify(token, hour) = "payload" THEN [id |-> token] ELSE Null

verifyToken(token) ==
    /\ verified' = <<[token |-> token, result |-> VerifyResult(token, tokenBlacklist, authHour)]>>
    /\ UNCHANGED <<tokenBlacklist, authHour, invalidated>>

invalidateToken(token) ==
    /\ tokenBlacklist' = tokenBlacklist \cup {token}
    /\ invalidated' = invalidated \cup {token}
    /\ verified' = <<>>
    /\ UNCHANGED authHour

\* tokenBlacklist.size > 1000
ShouldClear(blacklist) == Cardinality(blacklist) > MaxBlacklist

\* the hourly interval: if (tokenBlacklist.size > 1000) tokenBlacklist.clear()
BlacklistCleanup ==
    /\ tokenBlacklist' = IF ShouldClear(tokenBlacklist) THEN {} ELSE tokenBlacklist
    /\ verified' = <<>>
    /\ UNCHANGED <<authHour, invalidated>>

AuthTick ==
    /\ authHour' = authHour + 1
    /\ verified' = <<>>
    /\ UNCHANGED <<tokenBlacklist, invalidated>>

MaxAuthHours == 25

\* the service as constructed, or after 999 tokens have been invalidated
InitAuthSpec ==
    /\ InitStore
    /\ InitIdlePattern
    /\ InitHealth
    /\ InitIdleMemory
    /\ InitBuckets
    /\ InitSnapshots
    /\ InitRoutes
    /\ InitTimers
    /\ InitResponses
    /\ InitLimiter
    /\ InitAssignments
    /\ InitScreens
    /\ InitDashboard
    /\ authHour = 0
    /\ verified = <<>>
    /\ \/ tokenBlacklist = {} /\ invalidated = {}
       \/ tokenBlacklist = EarlierTokens /\ invalidated = EarlierTokens

NextAuth ==
    \/ \E token \in AuthTokens :
          /\ invalidateToken(token)
          /\ UNCHANGED <<patternVars, storeVars, healthVars, memoryVars, bucketVars, routeVars, snapshotVars, besideAuth>>
    \/ \E token \in AuthTokens :
          /\ verifyToken(token)
          /\ UNCHANGED <<patternVars, storeVars, healthVars, memoryVars, bucketVars, routeVars, snapshotVars, besideAuth>>
    \/ BlacklistCleanup
          /\ UNCHANGED <<patternVars, storeVars, healthVars, memoryVars, bucketVars, routeVars, snapshotVars, besideAuth>>
    \/ /\ authHour < MaxAuthHours
       /\ AuthTick
       /\ UNCHANGED <<patternVars, storeVars, healthVars, memoryVars, bucketVars, routeVars, snapshotVars, besideAuth>>

SpecAuth == InitAuthSpec /\ [][NextAuth]_vars

\* C27: once invalidateToken(t) has been called, verifyToken(t) returns null
\* in every later state, whatever invalidations and blacklist clean-ups
\* follow.
C27_InvalidatedStaysInvalid ==
    \A token \in invalidated : VerifyResult(token, tokenBlacklist, authHour) = Null

(***************************************************************************)
(* createAssignment and bulkAssign                                         *)
(***************************************************************************)
AssignScreens == {"screen-1", "screen-2"}
AssignPlaylists == {"playlist-1", "playlist-2"}
AssignCallers == {1, 2}

\* createAssignment({screenId, playlistId}): one assignment;
\* bulkAssign(assignments): createAssignment for each, one after the other
AssignmentLists ==
    {<<[screenId |-> s, playlistId |-> p]>> : s \in AssignScreens, p \in AssignPlaylists}
    \cup {<<[screenId |-> "screen-1", playlistId |-> p], [screenId |-> s, playlistId |-> "playlist-2"]>> :
             s \in AssignScreens, p \in AssignPlaylists}

\* a handler calls createAssignment or bulkAssign
StartAssign(caller, todo) ==
    /\ calls[caller].pc = "idle"
    /\ calls' = [calls EXCEPT ![caller] = [pc |-> "check", todo |-> todo, existing |-> FALSE]]
    /\ assignCalls' = assignCalls + 1
    /\ lastWrite' = <<>>
    /\ UNCHANGED <<assignmentRows, uniqueScreenId>>

\* select('id, playlist_id').eq('screen_id', screenId).single(): a row when
\* exactly one matches; no row or several rows give PGRST116 and no data
CheckExisting(caller) ==
    /\ calls[caller].pc = "check"
    /\ calls' = [calls EXCEPT ![caller].pc = "write",
                              ![caller].existing =
                                  Len(assignmentRows[calls[caller].todo[1].screenId]) = 1]
    /\ lastWrite' = <<>>
    /\ UNCHANGED <<assignmentRows, uniqueScreenId, assignCalls>>

\* the next createAssignment of a bulkAssign, or the end of the call
AfterWrite(call) ==
    [pc |-> IF Len(call.todo) > 1 THEN "check" ELSE "idle",
     todo |-> Tail(call.todo), existing |-> FALSE]

\* the update branch or the insert branch, on the answer of the check
WriteAssignment(caller) ==
    /\ calls[caller].pc = "write"
    /\ LET screen == calls[caller].todo[1].screenId
           playlist == calls[caller].todo[1].playlistId
           rows == assignmentRows[screen]
           action == IF calls[caller].existing
                     THEN IF Len(rows) = 1 THEN "updated" ELSE "failed"
                     ELSE IF uniqueScreenId /\ Len(rows) > 0 THEN "failed" ELSE "inserted"
       IN /\ assignmentRows' =
                [assignmentRows EXCEPT ![screen] =
                    IF action = "updated" THEN <<playlist>>
                    ELSE IF action = "inserted" THEN Append(rows, playlist)
                    ELSE rows]
          /\ lastWrite' = <<[screen |-> screen, hadRow |-> Len(rows) > 0, action |-> action]>>
    /\ calls' = [calls EXCEPT ![caller] = AfterWrite(calls[caller])]
    /\ UNCHANGED <<uniqueScreenId, assignCalls>>

MaxAssignCalls == 3

InitAssignSpec ==
    /\ InitStore
    /\ InitIdlePattern
    /\ InitHealth
    /\ InitIdleMemory
    /\ InitBuckets
    /\ InitSnapshots
    /\ InitRoutes
    /\ InitTimers
    /\ InitResponses
    /\ InitLimiter
    /\ InitAuth
    /\ InitScreens
    /\ InitDashboard
    /\ assignmentRows = [screen \in AssignScreens |-> <<>>]
    /\ uniqueScreenId \in BOOLEAN
    /\ calls = [caller \in AssignCallers |-> [pc |-> "idle", todo |-> <<>>, existing |-> FALSE]]
    /\ lastWrite = <<>>
    /\ assignCalls = 0

NextAssign ==
    \/ \E caller \in AssignCallers, todo \in AssignmentLists :
          /\ assignCalls < MaxAssignCalls
          /\ StartAssign(caller, todo)
          /\ UNCHANGED <<patternVars, storeVars, healthVars, memoryVars, bucketVars, routeVars, snapshotVars, besideAssignments>>
    \/ \E caller \in AssignCallers :
          /\ CheckExisting(caller)
          /\ UNCHANGED <<patternVars, storeVars, healthVars, memoryVars, bucketVars, routeVars, snapshotVars, besideAssignments>>
    \/ \E caller \in AssignCallers :
          /\ WriteAssignment(caller)
          /\ UNCHANGED <<patternVars, storeVars, healthVars, memoryVars, bucketVars, routeVars, snapshotVars, besideAssignments>>

SpecAssign == InitAssignSpec /\ [][NextAssign]_vars

\* C28: under every interleaving of concurrent createAssignment and
\* bulkAssign calls each screen has at most one assignment row, and a call
\* that writes for a screen which already has a row updates that row instead
\* of inserting a second one.
C28_OneRowPerScreen ==
    /\ \A screen \in AssignScreens : Len(assignmentRows[screen]) <= 1
    /\ lastWrite # <<>> /\ lastWrite[1].hadRow => lastWrite[1].action = "updated"

(***************************************************************************)
(* updateScreenStatuses and updateHeartbeat                                *)
(***************************************************************************)
\* this.heartbeatTimeout = 5 * 60 * 1000
HeartbeatTimeoutMs == 300000

ScreenIds == {"screen-1", "screen-2"}

\* the filter of getOfflineScreens: no heartbeat, or one before the cutoff
IsStale(screen, at) ==
    \/ screen.last_heartbeat = <<>>
    \/ screen.last_heartbeat[1] < at - HeartbeatTimeoutMs

\* updateHeartbeat(deviceCode) with the default status
updateHeartbeat(id) ==
    /\ screens' = [screens EXCEPT ![id] = [status |-> "online", last_heartbeat |-> <<screenNow>>]]
    /\ lastPass' = <<>>
    /\ UNCHANGED <<screenNow, statusPass>>

\* updateScreenStatuses awaits getOfflineScreens
getOfflineScreens ==
    /\ statusPass.pc = "idle"
    /\ statusPass' = [pc |-> "fetched", ids |-> {id \in ScreenIds : IsStale(screens[id], screenNow)}]
    /\ lastPass' = <<>>
    /\ UNCHANGED <<screens, screenNow>>

\* the rest of updateScreenStatuses: nothing to do, or the update of the
\* fetched ids that are not offline yet, and the count of the fetched ids
updateScreenStatuses ==
    /\ statusPass.pc = "fetched"
    /\ LET changed == {id \in statusPass.ids : screens[id].status # "offline"}
       IN /\ screens' = [id \in ScreenIds |->
                            IF id \in changed
                            THEN [screens[id] EXCEPT !.status = "offline"]
                            ELSE screens[id]]
          /\ lastPass' = <<[updated |-> Cardinality(statusPass.ids),
                            changed |-> changed,
                            fresh |-> {id \in changed : ~IsStale(screens[id], screenNow)}]>>
    /\ statusPass' = [pc |-> "idle", ids |-> {}]
    /\ UNCHANGED screenNow

ScreenTick(d) ==
    /\ screenNow' = screenNow + d
    /\ lastPass' = <<>>
    /\ UNCHANGED <<screens, statusPass>>

ScreenSteps == {200000}
MaxScreenNow == 800000

NextScreens ==
    \/ \E id \in ScreenIds :
          /\ updateHeartbeat(id)
          /\ UNCHANGED <<patternVars, storeVars, healthVars, memoryVars, bucketVars, routeVars, snapshotVars, besideScreens>>
    \/ getOfflineScreens
          /\ UNCHANGED <<patternVars, storeVars, healthVars, memoryVars, bucketVars, routeVars, snapshotVars, besideScreens>>
    \/ updateScreenStatuses
          /\ UNCHANGED <<patternVars, storeVars, healthVars, memoryVars, bucketVars, routeVars, snapshotVars, besideScreens>>
    \/ \E d \in ScreenSteps :
          /\ screenNow + d <= MaxScreenNow
          /\ ScreenTick(d)
          /\ UNCHANGED <<patternVars, storeVars, healthVars, memoryVars, bucketVars, routeVars, snapshotVars, besideScreens>>

SpecScreens == Init /\ [][NextScreens]_vars

\* C29: updateScreenStatuses marks offline only screens whose last heartbeat
\* is missing or older than the 5-minute timeout at the moment of the update,
\* under every interleaving with updateHeartbeat, and the 'updated' count it
\* returns is the number of screens whose status it changed.
C29_OnlyStaleMarkedOffline ==
    lastPass # <<>> =>
        /\ lastPass[1].fresh = {}
        /\ lastPass[1].updated = Cardinality(lastPass[1].changed)

(***************************************************************************)
(* GET /dashboard/health                                                   *)
(***************************************************************************)
Component(name, status) == [name |-> name, status |-> status]
Alert(type, component) == [type |-> type, component |-> component]

\* the statuses of the components, in insertion order
StatusesOf(components) == [i \in DOMAIN components |-> components[i].status]

Includes(statuses, status) == \E i \in DOMAIN statuses : statuses[i] = status

\* the final overall status determination of the route
FinalOverall(overall, statuses) ==
    IF Includes(statuses, "error") THEN "error"
    ELSE IF Includes(statuses, "critical") THEN "critical"
    ELSE IF Includes(statuses, "warning") THEN "warning"
    ELSE overall

\* one turn of the loop of performHealthCheck on a check's status
OverallAfter(overall, status) ==
    IF status \in {"critical", "error"} THEN "critical"
    ELSE IF status = "warning" /\ overall = "healthy" THEN "warning"
    ELSE overall

RECURSIVE PerformOverallFrom(_, _)
PerformOverallFrom(overall, statuses) ==
    IF statuses = <<>> THEN overall
    ELSE PerformOverallFrom(OverallAfter(overall, Head(statuses)), Tail(statuses))

\* results.overall of performHealthCheck whose checks report these statuses
PerformOverall(statuses) == PerformOverallFrom("healthy", statuses)

DashStart ==
    /\ dashPc \in {"idle", "responded"}
    /\ dashPc' = "database"
    /\ dashOverall' = "healthy"
    /\ dashComponents' = <<>>
    /\ dashAlerts' = <<>>
    /\ dashScreensTotal' = <<>>
    /\ compared' = <<>>

\* the profiles query answers (with or without dbError, fast or slow) or throws
DashDatabase(threw, dbError, slow) ==
    /\ dashPc = "database"
    /\ dashPc' = "storage"
    /\ dashComponents' = Append(dashComponents,
           Component("database", IF threw \/ dbError THEN "error" ELSE "healthy"))
    /\ dashAlerts' = IF ~threw /\ slow
                     THEN Append(dashAlerts, Alert("warning", "database"))
                     ELSE dashAlerts
    /\ dashOverall' = IF threw THEN "error" ELSE dashOverall
    /\ UNCHANGED <<dashScreensTotal, compared>>

\* listBuckets answers (storageError leaves no buckets) or throws
DashStorage(threw, storageError, mediaBucket) ==
    /\ dashPc = "storage"
    /\ dashPc' = "screens"
    /\ dashComponents' = Append(dashComponents,
           Component("storage", IF threw \/ storageError THEN "error"
                                ELSE IF mediaBucket THEN "healthy" ELSE "warning"))
    /\ dashAlerts' = IF ~threw /\ ~mediaBucket
                     THEN Append(dashAlerts, Alert("error", "storage"))
                     ELSE dashAlerts
    /\ dashOverall' = IF threw THEN "error"
                      ELSE IF ~mediaBucket THEN "degraded"
                      ELSE dashOverall
    /\ UNCHANGED <<dashScreensTotal, compared>>

\* connectivityRate >= percent, with the rate 100 for no screens
RateAtLeast(part, total, percent) ==
    IF total > 0 THEN part * 100 >= percent * total ELSE 100 >= percent

\* the screens query answered: failed |-> TRUE for screensError, else the
\* counts of the rows
DashScreens(rows) ==
    /\ dashPc = "screens"
    /\ dashPc' = "content"
    /\ IF rows.failed
       THEN UNCHANGED <<dashComponents, dashAlerts, dashOverall, dashScreensTotal>>
       ELSE LET healthy == RateAtLeast(rows.recentlyActive, rows.total, 80)
                warning == RateAtLeast(rows.recentlyActive, rows.total, 50)
                stale == IF rows.staleConnections > 0
                         THEN Append(dashAlerts, Alert("warning", "screens"))
                         ELSE dashAlerts
            IN /\ dashComponents' = Append(dashComponents,
                      Component("screens", IF healthy THEN "healthy"
                                           ELSE IF warning THEN "warning" ELSE "critical"))
               /\ dashScreensTotal' = <<rows.total>>
               /\ dashAlerts' = IF ~warning THEN Append(stale, Alert("critical", "screens"))
                                ELSE IF ~healthy THEN Append(stale, Alert("warning", "screens"))
                                ELSE stale
               /\ dashOverall' = IF ~warning THEN "critical"
                                 ELSE IF ~healthy /\ dashOverall = "healthy" THEN "warning"
                                 ELSE dashOverall
    /\ UNCHANGED compared

\* the assignments query answered: failed |-> TRUE for no data
DashContent(rows) ==
    /\ dashPc = "content"
    /\ dashPc' = "system"
    /\ IF rows.failed
       THEN UNCHANGED <<dashComponents, dashAlerts>>
       ELSE LET total == IF dashScreensTotal = <<>> THEN 0 ELSE dashScreensTotal[1]
                healthy == total > 0 /\ rows.assignments * 100 >= 80 * total
                warning == total > 0 /\ rows.assignments * 100 >= 50 * total
                empty == IF rows.emptyPlaylists > 0
                         THEN Append(dashAlerts, Alert("warning", "content"))
                         ELSE dashAlerts
            IN /\ dashComponents' = Append(dashComponents,
                      Component("content", IF healthy THEN "healthy"
                                           ELSE IF warning THEN "warning" ELSE "critical"))
               /\ dashAlerts' = IF ~warning THEN Append(empty, Alert("warning", "content"))
                                ELSE empty
    /\ UNCHANGED <<dashOverall, dashScreensTotal, compared>>

\* the system component, the memory usage check, the final overall status
\* determination and res.json
DashFinish(used, total) ==
    /\ dashPc = "system"
    /\ dashPc' = "responded"
    /\ LET components == Append(dashComponents, Component("system", "healthy"))
           overall == IF UsageAbove(used, total, 90) THEN "critical" ELSE dashOverall
       IN /\ dashComponents' = components
          /\ dashAlerts' = IF UsageAbove(used, total, 90)
                           THEN Append(dashAlerts, Alert("critical", "system"))
                           ELSE IF UsageAbove(used, total, 75)
                           THEN Append(dashAlerts, Alert("warning", "system"))
                           ELSE dashAlerts
          /\ dashOverall' = FinalOverall(overall, StatusesOf(components))
          /\ compared' = <<[dashboard |-> FinalOverall("healthy", StatusesOf(components)),
                            monitoring |-> PerformOverall(StatusesOf(components))]>>
    /\ UNCHANGED dashScreensTotal

\* a query outside the two inner try blocks throws: the outer catch answers
\* 500 with a health object of its own
DashFails ==
    /\ dashPc \in {"screens", "content"}
    /\ dashPc' = "responded"
    /\ dashOverall' = "error"
    /\ dashComponents' = <<Component("system", "error")>>
    /\ dashAlerts' = <<Alert("critical", "system")>>
    /\ UNCHANGED <<dashScreensTotal, compared>>

ScreenRows ==
    {[failed |-> TRUE, total |-> 0, recentlyActive |-> 0, staleConnections |-> 0],
     [failed |-> FALSE, total |-> 0, recentlyActive |-> 0, staleConnections |-> 0]}
    \cup {[failed |-> FALSE, total |-> 5, recentlyActive |-> active, staleConnections |-> stale] :
             active \in {2, 3, 4}, stale \in {0, 1}}

ContentRows ==
    {[failed |-> TRUE, assignments |-> 0, emptyPlaylists |-> 0]}
    \cup {[failed |-> FALSE, assignments |-> n, emptyPlaylists |-> e] :
             n \in {2, 3, 4}, e \in {0, 1}}

DashHeapLevels == {500, 751, 900, 901}

NextDashboard ==
    \/ DashStart
          /\ UNCHANGED <<patternVars, storeVars, healthVars, memoryVars, bucketVars, routeVars, snapshotVars, besideDashboard>>
    \/ \E threw \in BOOLEAN, dbError \in BOOLEAN, slow \in BOOLEAN :
          /\ threw => ~dbError /\ ~slow
          /\ DashDatabase(threw, dbError, slow)
          /\ UNCHANGED <<patternVars, storeVars, healthVars, memoryVars, bucketVars, routeVars, snapshotVars, besideDashboard>>
    \/ \E threw \in BOOLEAN, storageError \in BOOLEAN, mediaBucket \in BOOLEAN :
          /\ threw \/ storageError => ~mediaBucket
          /\ threw => ~storageError
          /\ DashStorage(threw, storageError, mediaBucket)
          /\ UNCHANGED <<patternVars, storeVars, healthVars, memoryVars, bucketVars, routeVars, snapshotVars, besideDashboard>>
    \/ \E rows \in ScreenRows :
          /\ DashScreens(rows)
          /\ UNCHANGED <<patternVars, storeVars, healthVars, memoryVars, bucketVars, routeVars, snapshotVars, besideDashboard>>
    \/ \E rows \in ContentRows :
          /\ DashContent(rows)
          /\ UNCHANGED <<patternVars, storeVars, healthVars, memoryVars, bucketVars, routeVars, snapshotVars, besideDashboard>>
    \/ \E used \in DashHeapLevels :
          /\ DashFinish(used, MemoryTotal)
          /\ UNCHANGED <<patternVars, storeVars, healthVars, memoryVars, bucketVars, routeVars, snapshotVars, besideDashboard>>
    \/ DashFails
          /\ UNCHANGED <<patternVars, storeVars, healthVars, memoryVars, bucketVars, routeVars, snapshotVars, besideDashboard>>

SpecDashboard == Init /\ [][NextDashboard]_vars

\* C24: performHealthCheck and the final status determination of the
\* dashboard health route apply the same total order error > critical >
\* warning > healthy: on every assignment of statuses to the components they
\* report the same overall value.
C24_SameOverall ==
    compared # <<>> => compared[1].dashboard = compared[1].monitoring

\* C30: the overall status the dashboard health route returns is one of
\* healthy, warning, critical, error, and is never less severe than an alert
\* of the pass: once a critical alert was raised it is critical or error.
C30_OverallCoversAlerts ==
    dashPc = "responded" =>
        /\ dashOverall \in {"healthy", "warning", "critical", "error"}
        /\ (\E i \in DOMAIN dashAlerts : dashAlerts[i].type = "critical")
              => dashOverall \in {"critical", "error"}
====
